---- MODULE Spec2Model ----
(***************************************************************************)
(* Memory-analyzer core of one2world/Profiler: the stack-trace and         *)
(* allocation parsers, the flame-graph merge tree and its layout, the      *)
(* search box, the rectangles and the selection of the flame-graph view,   *)
(* and the window that reloads them.                                       *)
(*                                                                         *)
(* Text (str) is a sequence of tokens: ":" and " " are tokens of one       *)
(* character, every other token is an indivisible run of characters        *)
(* without ':' and without white space.  None is <<>> and a present        *)
(* optional value v is <<v>>.  A dict is the sequence of its [key, val]    *)
(* entries in insertion order.                                             *)
(***************************************************************************)
EXTENDS Integers, Sequences, FiniteSets, TLC

VARIABLES
    corpus,          \* the (traces, allocations) a caller holds for update_data
    _traces,         \* FlameGraphWidget._traces
    _allocations,    \* FlameGraphWidget._allocations
    _root,           \* FlameGraphWidget._root: <<>> is None, else the node arena
    _rect_items,     \* FlameGraphWidget._rect_items (the rectangles, in insertion order)
    reverse_stack,   \* FlameGraphWidget.reverse_stack
    scene_rect,      \* scene.sceneRect() as <<x, y, width, height>>
    passes,          \* layout passes run so far (bounded by MaxPasses)
    file,            \* the file a caller holds for parse_file
    stack_parser,    \* StackParser: [traces]
    alloc_parser,    \* AllocationParser: [records, _frame_data, _hash_data]
    parses,          \* parse_file calls made so far (bounded by MaxParses)
    traces_shared,   \* FlameGraphWidget._traces is the dict stack_parser.traces
    stack_tree,      \* the CallTreeNode arena StackTreeWidget.update_data built
    timeline_frame_data, \* TimelineWidget._frame_data
    status,          \* statusBar().currentMessage()
    loads,           \* load_all_file calls made so far (bounded by MaxLoads)
    drawn,           \* trees built so far: the generation of the nodes of _root
    selected_node,   \* FlameGraphWidget.selected_node
    search_results,  \* FlameGraphWidget.search_results: rectangles, in list order
    search_text,     \* search_input.text()
    age,             \* ticks since last_update_time, at most IntervalTicks
    key_age,         \* ticks since a non-empty text was typed, at most IntervalTicks
    timer,           \* _update_timer: -1 inactive, else ticks until it is due
    emitted,         \* what the last handler sent on stack_selected: (hash id, times)
    status_label,    \* the text status_label shows (name, size, count), None if hidden
    viewport_width,  \* view.viewport().width()
    chosen,          \* the files the two dialogs of the last load_all_file returned
    last_op,         \* the handler that ran last
    exc              \* the exception that handler raised, "none" if it returned

widgetVars == <<_traces, _allocations, _root, _rect_items, reverse_stack, scene_rect>>
\* what the handlers of FlameGraphWidget leave alone
searchVars == <<drawn, selected_node, search_results, search_text, age, key_age, timer,
                emitted, status_label>>
parserVars == <<stack_parser, alloc_parser>>
windowVars == <<traces_shared, stack_tree, timeline_frame_data, status, chosen>>
outsideWidget == <<searchVars, viewport_width, passes, file, parserVars, parses, windowVars,
                   loads>>
outsideLayout == <<searchVars, file, parserVars, parses, windowVars, loads>>
vars == <<corpus, widgetVars, outsideWidget, last_op, exc>>

(***************************************************************************)
(* Bounds of the model.                                                    *)
(***************************************************************************)
MaxSize == 2      \* allocation sizes are 0..MaxSize
MaxFrames == 2    \* frames per stack trace
MaxPasses == 2    \* layout passes over one tree
MaxLines == 4     \* lines of a parsed file
MaxParses == 2    \* parse_file calls on one parser
MaxLoads == 2     \* load_all_file calls on one window
MaxDraws == 2     \* trees built for one view
IntervalTicks == 2  \* ticks that make update_interval

(***************************************************************************)
(* Constants of the program.                                               *)
(***************************************************************************)
rect_height == 24       \* FlameGraphWidget.rect_height
v_spacing == 4          \* FlameGraphWidget.v_spacing
min_width == 1          \* FlameGraphWidget.min_width
MinTotalWidth == 800    \* max(800, ...) in _calculate_layout
ViewportMargin == 20    \* viewport().width() - 20 in _calculate_layout

None == <<>>
Some(v) == <<v>>

\* function names: "f" and "Fg"
Names == {<<"f">>, <<"F", "g">>}
Sizes == 0..MaxSize

Min(S) == CHOOSE m \in S : \A n \in S : m <= n
Max(S) == CHOOSE m \in S : \A n \in S : n <= m

RECURSIVE SumSeq(_)
SumSeq(s) == IF s = <<>> THEN 0 ELSE Head(s) + SumSeq(Tail(s))

Reverse(s) == [i \in 1..Len(s) |-> s[Len(s) + 1 - i]]

SeqsUpTo(S, n) == UNION {[1..k -> S] : k \in 0..n}

(***************************************************************************)
(* dict                                                                    *)
(***************************************************************************)
EmptyDict == <<>>
KeySeq(d) == [i \in 1..Len(d) |-> d[i].key]
KeySet(d) == {d[i].key : i \in 1..Len(d)}
HasKey(d, k) == k \in KeySet(d)
DictGet(d, k) == d[CHOOSE i \in 1..Len(d) : d[i].key = k].val
DictPut(d, k, v) ==
    IF HasKey(d, k)
    THEN [i \in 1..Len(d) |-> IF d[i].key = k THEN [key |-> k, val |-> v] ELSE d[i]]
    ELSE Append(d, [key |-> k, val |-> v])
IsDict(d) == \A i, j \in 1..Len(d) : d[i].key = d[j].key => i = j
Dicts(K, V) == {d \in SeqsUpTo([key : K, val : V], Cardinality(K)) : IsDict(d)}

(***************************************************************************)
(* core data classes                                                       *)
(***************************************************************************)
StackFrame(address, module, function, source_info) ==
    [address |-> address, module |-> module, function |-> function,
     source_info |-> source_info]

StackTrace(hash_id, frames) == [hash_id |-> hash_id, frames |-> frames]

AllocationRecord(size, hash_id, address, object_type, frame) ==
    [size |-> size, hash_id |-> hash_id, address |-> address,
     object_type |-> object_type, frame |-> frame]

(***************************************************************************)
(* str methods on token sequences                                          *)
(***************************************************************************)
RECURSIVE LStrip(_)
LStrip(s) == IF s # <<>> /\ Head(s) = " " THEN LStrip(Tail(s)) ELSE s

\* s.strip()
Strip(s) == Reverse(LStrip(Reverse(LStrip(s))))

\* the position of the first ':' of s, 0 if it has none
FirstColon(s) ==
    LET hits == {i \in 1..Len(s) : s[i] = ":"}
    IN IF hits = {} THEN 0 ELSE Min(hits)

\* s.startswith('hash:')
StartsWithHash(s) == Len(s) >= 2 /\ s[1] = "hash" /\ s[2] = ":"

\* s.split(':')[1] of an s that holds a ':'
SplitSecond(s) ==
    LET rest == SubSeq(s, FirstColon(s) + 1, Len(s))
        c == FirstColon(rest)
    IN IF c = 0 THEN rest ELSE SubSeq(rest, 1, c - 1)

\* int(s) accepts an optional sign followed by decimal digits
Digits == ("0" :> 0) @@ ("1" :> 1) @@ ("2" :> 2) @@ ("3" :> 3) @@ ("4" :> 4) @@
          ("5" :> 5) @@ ("6" :> 6) @@ ("7" :> 7) @@ ("8" :> 8) @@ ("9" :> 9)

Unsigned(s) == IF s # <<>> /\ s[1] \in {"+", "-"} THEN Tail(s) ELSE s

IsInt(s) ==
    /\ Unsigned(s) # <<>>
    /\ \A i \in 1..Len(Unsigned(s)) : Unsigned(s)[i] \in DOMAIN Digits

RECURSIVE DigitsValue(_)
DigitsValue(s) ==
    IF s = <<>> THEN 0
    ELSE DigitsValue(SubSeq(s, 1, Len(s) - 1)) * 10 + Digits[s[Len(s)]]

IntOf(s) ==
    IF s[1] = "-" THEN -DigitsValue(Unsigned(s)) ELSE DigitsValue(Unsigned(s))

(***************************************************************************)
(* StackFrame.parse: the pattern                                           *)
(*   (0x[0-9a-fA-F]+)\s+\(([^)]+)\)(?:\s+\[([^]]+)\])?\s*(.+)?             *)
(* matched at the start of the stripped line.  An address, a parenthesized *)
(* module and a bracketed source are tokens; the functions below give the  *)
(* text inside the parentheses and the brackets.                           *)
(***************************************************************************)
AddressTokens == {"0x1"}
ModuleTokens == ("(m)" :> <<"m">>)
SourceTokens == ("[s]" :> <<"s">>)

\* the first position at or after i that holds no white space
RECURSIVE SkipSpaces(_, _)
SkipSpaces(s, i) ==
    IF i <= Len(s) /\ s[i] = " " THEN SkipSpaces(s, i + 1) ELSE i

StackFrame_parse(raw) ==
    LET line == Strip(raw)
        m == SkipSpaces(line, 2)
        matched == /\ Len(line) >= 3
                   /\ line[1] \in AddressTokens
                   /\ line[2] = " "
                   /\ m <= Len(line)
                   /\ line[m] \in DOMAIN ModuleTokens
        b == SkipSpaces(line, m + 1)
        sourced == b > m + 1 /\ b <= Len(line) /\ line[b] \in DOMAIN SourceTokens
        f == SkipSpaces(line, IF sourced THEN b + 1 ELSE m + 1)
    IN IF matched
       THEN StackFrame(<<line[1]>>, ModuleTokens[line[m]],
                       SubSeq(line, f, Len(line)),
                       IF sourced THEN Some(SourceTokens[line[b]]) ELSE None)
       ELSE StackFrame(<<>>, <<>>, line, None)

(***************************************************************************)
(* StackParser.  A file is [readable, lines]; open() of an unreadable file *)
(* raises OSError.  current_hash None and current_hash '' are both <<>>:   *)
(* the code only tests current_hash for truth before it uses it.           *)
(***************************************************************************)
StackParser == [traces |-> EmptyDict]

\* one iteration of the loop; st = [current_hash, current_frames, traces]
StackParserLine(st, raw) ==
    LET line == Strip(raw)
        stored == st.current_hash # <<>> /\ st.current_frames # <<>>
    IN IF StartsWithHash(line)
       THEN [current_hash |-> Strip(SplitSecond(line)),
             current_frames |-> IF stored THEN <<>> ELSE st.current_frames,
             traces |-> IF stored
                        THEN DictPut(st.traces, st.current_hash,
                                     StackTrace(st.current_hash, st.current_frames))
                        ELSE st.traces]
       ELSE IF line # <<>>
            THEN [st EXCEPT !.current_frames = Append(@, StackFrame_parse(line))]
            ELSE st

RECURSIVE StackParserLines(_, _)
StackParserLines(st, lines) ==
    IF lines = <<>> THEN st
    ELSE StackParserLines(StackParserLine(st, Head(lines)), Tail(lines))

\* StackParser.parse_file: [exc, parser]
StackParser_parse_file(parser, f) ==
    IF ~f.readable THEN [exc |-> "OSError", parser |-> parser]
    ELSE LET st == StackParserLines([current_hash |-> None, current_frames |-> <<>>,
                                     traces |-> parser.traces], f.lines)
         IN [exc |-> "none",
             parser |-> [traces |->
                 IF st.current_hash # <<>> /\ st.current_frames # <<>>
                 THEN DictPut(st.traces, st.current_hash,
                              StackTrace(st.current_hash, st.current_frames))
                 ELSE st.traces]]

\* StackParser.get_trace: None or the trace
get_trace(parser, hash_id) ==
    IF HasKey(parser.traces, hash_id) THEN Some(DictGet(parser.traces, hash_id)) ELSE None

(***************************************************************************)
(* AllocationParser                                                        *)
(***************************************************************************)
AllocationParser == [records |-> <<>>, _frame_data |-> EmptyDict, _hash_data |-> EmptyDict]

\* data.get(key, default)
GetOr(data, k, default) == IF HasKey(data, k) THEN DictGet(data, k) ELSE default

\* _create_record: [ok, record]; ok is FALSE when int() raised ValueError
_create_record(data) ==
    LET sized == HasKey(data, <<"size">>)
        framed == HasKey(data, <<"frame">>)
    IN IF \/ sized /\ ~IsInt(DictGet(data, <<"size">>))
          \/ framed /\ ~IsInt(DictGet(data, <<"frame">>))
       THEN [ok |-> FALSE, record |-> <<>>]
       ELSE [ok |-> TRUE,
             record |-> AllocationRecord(
                 IF sized THEN IntOf(DictGet(data, <<"size">>)) ELSE 0,
                 GetOr(data, <<"hash">>, <<>>),
                 GetOr(data, <<"addr">>, <<>>),
                 GetOr(data, <<"object">>, <<>>),
                 IF framed THEN Some(IntOf(DictGet(data, <<"frame">>))) ELSE None)]

\* d[k].append(v) on a defaultdict(list)
AppendAt(d, k, v) == DictPut(d, k, Append(GetOr(d, k, <<>>), v))

\* as _add_record, with the record put at the head of its hash bucket
_add_record_newest_first(parser, record) ==
    [records |-> Append(parser.records, record),
     _frame_data |-> IF record.frame # None
                     THEN AppendAt(parser._frame_data, record.frame[1], record)
                     ELSE parser._frame_data,
     _hash_data |-> DictPut(parser._hash_data, record.hash_id,
                            <<record>> \o GetOr(parser._hash_data, record.hash_id, <<>>))]

_add_record(parser, record) ==
    [records |-> Append(parser.records, record),
     _frame_data |-> IF record.frame # None
                     THEN AppendAt(parser._frame_data, record.frame[1], record)
                     ELSE parser._frame_data,
     _hash_data |-> AppendAt(parser._hash_data, record.hash_id, record)]

\* current_record is flushed: st = [current_record, parser, exc]
FlushRecord(st) ==
    IF st.current_record = EmptyDict THEN st
    ELSE LET r == _create_record(st.current_record)
         IN IF ~r.ok THEN [st EXCEPT !.exc = "ValueError"]
            ELSE [st EXCEPT !.parser = _add_record(@, r.record),
                            !.current_record = EmptyDict]

\* one iteration of the loop; nothing runs after an exception
AllocParserLine(st, raw) ==
    LET line == Strip(raw)
        c == FirstColon(line)
    IN IF st.exc # "none" THEN st
       ELSE IF line = <<>> THEN FlushRecord(st)
       ELSE IF c = 0 THEN [st EXCEPT !.exc = "ValueError"]
       ELSE [st EXCEPT !.current_record =
                DictPut(@, Strip(SubSeq(line, 1, c - 1)),
                           Strip(SubSeq(line, c + 1, Len(line))))]

RECURSIVE AllocParserLines(_, _)
AllocParserLines(st, lines) ==
    IF lines = <<>> THEN st
    ELSE AllocParserLines(AllocParserLine(st, Head(lines)), Tail(lines))

\* AllocationParser.parse_file: [exc, parser]
AllocationParser_parse_file(parser, f) ==
    IF ~f.readable THEN [exc |-> "OSError", parser |-> parser]
    ELSE LET st == AllocParserLines([current_record |-> EmptyDict, parser |-> parser,
                                     exc |-> "none"], f.lines)
             done == IF st.exc = "none" THEN FlushRecord(st) ELSE st
         IN [exc |-> done.exc, parser |-> done.parser]

get_frame_allocations(parser, frame) == GetOr(parser._frame_data, frame, <<>>)
get_hash_allocations(parser, hash_id) == GetOr(parser._hash_data, hash_id, <<>>)

get_frame_total_size(parser, frame) ==
    SumSeq([i \in 1..Len(get_frame_allocations(parser, frame)) |->
               get_frame_allocations(parser, frame)[i].size])

get_hash_total_size(parser, hash_id) ==
    SumSeq([i \in 1..Len(get_hash_allocations(parser, hash_id)) |->
               get_hash_allocations(parser, hash_id)[i].size])

\* as get_frame_range, with a record without a frame counted as frame 0
get_frame_range_none_as_zero(parser) ==
    LET frames == {IF parser.records[i].frame = None THEN 0 ELSE parser.records[i].frame[1] :
                      i \in 1..Len(parser.records)}
    IN IF frames = {} THEN <<0, 0>> ELSE <<Min(frames), Max(frames)>>

\* get_frame_range: <<min, max>> of the frames of the records, <<0, 0>> if none
get_frame_range(parser) ==
    LET frames == {parser.records[i].frame[1] :
                      i \in {j \in 1..Len(parser.records) : parser.records[j].frame # None}}
    IN IF frames = {} THEN <<0, 0>> ELSE <<Min(frames), Max(frames)>>

\* the parsers after construction, and a caller that holds no file
ParserInit ==
    /\ stack_parser = StackParser
    /\ alloc_parser = AllocationParser
    /\ parses = 0

NoFile == [kind |-> "none", readable |-> FALSE, lines |-> <<>>]
IdleFile == file = NoFile

(***************************************************************************)
(* FlameGraphNode: nodes live in an arena (a sequence); node 1 is the      *)
(* root, parent 0 is None, children holds arena indices in list order.     *)
(* x and width are exact rationals <<numerator, denominator>>.             *)
(***************************************************************************)
Zero == <<0, 1>>

FlameGraphNode(name, value) ==
    [name |-> name, value |-> value, children |-> <<>>, parent |-> 0,
     depth |-> 0, x |-> Zero, y |-> 0, width |-> Zero, hash_ids |-> {}]

(***************************************************************************)
(* FlameGraphWidget._build_node_tree                                       *)
(***************************************************************************)
\* stack_sizes: one (hash_id, sum of sizes) item per entry of _allocations
StackSizes(allocations) ==
    [i \in 1..Len(allocations) |->
        <<allocations[i].key,
          SumSeq([j \in 1..Len(allocations[i].val) |-> allocations[i].val[j].size])>>]

\* sorted(items, key=size, reverse=True): stable, ties keep the input order
RECURSIVE SortedStacks(_)
SortedStacks(items) ==
    IF items = <<>> THEN <<>>
    ELSE LET rest == SortedStacks(SubSeq(items, 1, Len(items) - 1))
             e == items[Len(items)]
             n == Cardinality({i \in 1..Len(rest) : rest[i][2] >= e[2]})
         IN SubSeq(rest, 1, n) \o <<e>> \o SubSeq(rest, n + 1, Len(rest))

\* as FindChild, comparing the name with the parent's instead of the child's
FindChildOfParentName(nodes, current, name) ==
    LET cs == nodes[current].children
        hits == {i \in 1..Len(cs) : nodes[current].name = name}
    IN IF hits = {} THEN 0 ELSE cs[Min(hits)]

\* the linear scan over current.children: the first child of that name, 0 if none
FindChild(nodes, current, name) ==
    LET cs == nodes[current].children
        hits == {i \in 1..Len(cs) : nodes[cs[i]].name = name}
    IN IF hits = {} THEN 0 ELSE cs[Min(hits)]

\* as WalkFrames, without child.value += size on a child that exists
RECURSIVE WalkFramesNoAdd(_, _, _, _, _)
WalkFramesNoAdd(nodes, current, frames, hash_id, size) ==
    IF frames = <<>> THEN nodes
    ELSE LET frame == Head(frames)
             child == FindChild(nodes, current, frame.function)
             new == Len(nodes) + 1
         IN IF child = 0
            THEN WalkFramesNoAdd(
                    Append([nodes EXCEPT ![current].children = Append(@, new)],
                           [FlameGraphNode(frame.function, size) EXCEPT
                               !.parent = current, !.hash_ids = {hash_id}]),
                    new, Tail(frames), hash_id, size)
            ELSE WalkFramesNoAdd(
                    [nodes EXCEPT ![child].hash_ids = @ \cup {hash_id}],
                    child, Tail(frames), hash_id, size)

RECURSIVE WalkFrames(_, _, _, _, _)
WalkFrames(nodes, current, frames, hash_id, size) ==
    IF frames = <<>> THEN nodes
    ELSE LET frame == Head(frames)
             child == FindChild(nodes, current, frame.function)
             new == Len(nodes) + 1
         IN IF child = 0
            THEN WalkFrames(
                    Append([nodes EXCEPT ![current].children = Append(@, new)],
                           [FlameGraphNode(frame.function, size) EXCEPT
                               !.parent = current, !.hash_ids = {hash_id}]),
                    new, Tail(frames), hash_id, size)
            ELSE WalkFrames(
                    [nodes EXCEPT ![child].value = @ + size,
                                  ![child].hash_ids = @ \cup {hash_id}],
                    child, Tail(frames), hash_id, size)

\* the loop over sorted_stacks; self._traces[hash_id] raises KeyError
RECURSIVE BuildStacks(_, _, _, _)
BuildStacks(nodes, stacks, traces, reverse) ==
    IF stacks = <<>> THEN [status |-> "ok", nodes |-> nodes]
    ELSE LET hash_id == stacks[1][1]
             size == stacks[1][2]
         IN IF ~HasKey(traces, hash_id)
            THEN [status |-> "KeyError", nodes |-> <<>>]
            ELSE LET trace == DictGet(traces, hash_id)
                     counted == [nodes EXCEPT ![1].value = @ + size,
                                              ![1].hash_ids = @ \cup {hash_id}]
                     frames == IF ~reverse THEN trace.frames
                               ELSE Reverse(trace.frames)
                 IN BuildStacks(WalkFrames(counted, 1, frames, hash_id, size),
                                Tail(stacks), traces, reverse)

\* as BuildNodeTree, walking the frames top-down in both modes
BuildNodeTreeForward(traces, allocations, reverse) ==
    BuildStacks(<<FlameGraphNode(<<"root">>, 0)>>,
                SortedStacks(StackSizes(allocations)), traces, FALSE)

BuildNodeTree(traces, allocations, reverse) ==
    BuildStacks(<<FlameGraphNode(<<"root">>, 0)>>,
                SortedStacks(StackSizes(allocations)), traces, reverse)

(***************************************************************************)
(* Exact rationals <<n, d>> with d > 0, kept in lowest terms, stand for    *)
(* the floats x and width: rounding to binary64 is not modelled.           *)
(***************************************************************************)
RECURSIVE GCD(_, _)
GCD(a, b) == IF b = 0 THEN a ELSE GCD(b, a % b)

Abs(n) == IF n < 0 THEN -n ELSE n
RNorm(n, d) ==
    LET g == GCD(Abs(n), d) IN IF n = 0 THEN Zero ELSE <<n \div g, d \div g>>
RInt(n) == <<n, 1>>
RMul(a, b) == RNorm(a[1] * b[1], a[2] * b[2])
RAdd(a, b) == RNorm(a[1] * b[2] + b[1] * a[2], a[2] * b[2])
RLe(a, b) == a[1] * b[2] <= b[1] * a[2]
RMax(a, b) == IF RLe(a, b) THEN b ELSE a

RECURSIVE RSum(_)
RSum(s) == IF s = <<>> THEN Zero ELSE RAdd(Head(s), RSum(Tail(s)))

(***************************************************************************)
(* _calculate_layout (written in class FlameGraphView) and _get_max_depth  *)
(***************************************************************************)
\* _get_max_depth: the depth FIELD of the leaves below node i
RECURSIVE GetMaxDepth(_, _)
GetMaxDepth(nodes, i) ==
    IF nodes[i].children = <<>> THEN nodes[i].depth
    ELSE Max({GetMaxDepth(nodes, nodes[i].children[k]) : k \in 1..Len(nodes[i].children)})

\* as SortedChildren, with the smallest value first
RECURSIVE SortedChildrenAscending(_, _)
SortedChildrenAscending(nodes, cs) ==
    IF cs = <<>> THEN <<>>
    ELSE LET rest == SortedChildrenAscending(nodes, SubSeq(cs, 1, Len(cs) - 1))
             c == cs[Len(cs)]
             n == Cardinality({k \in 1..Len(rest) : nodes[rest[k]].value <= nodes[c].value})
         IN SubSeq(rest, 1, n) \o <<c>> \o SubSeq(rest, n + 1, Len(rest))

\* sorted(node.children, key=lambda n: -n.value): stable
RECURSIVE SortedChildren(_, _)
SortedChildren(nodes, cs) ==
    IF cs = <<>> THEN <<>>
    ELSE LET rest == SortedChildren(nodes, SubSeq(cs, 1, Len(cs) - 1))
             c == cs[Len(cs)]
             n == Cardinality({k \in 1..Len(rest) : nodes[rest[k]].value >= nodes[c].value})
         IN SubSeq(rest, 1, n) \o <<c>> \o SubSeq(rest, n + 1, Len(rest))

\* as NodeWidth, with the share taken of the root's value
NodeWidthOfRoot(nodes, i, parent_width) ==
    RMul(parent_width, RNorm(nodes[i].value, nodes[1].value))

\* node.width of a node with a parent: parent_width * (value / parent.value)
NodeWidth(nodes, i, parent_width) ==
    RMul(parent_width, RNorm(nodes[i].value, nodes[nodes[i].parent].value))

\* layout_node and its loop over the children; ctx = [reverse, max_depth,
\* total_width].  The result is [ok, nodes]: ok is FALSE when the division
\* at line 140 raised ZeroDivisionError, nodes holds what was assigned so far.
RECURSIVE LayoutNode(_, _, _, _, _, _)
RECURSIVE LayoutChildren(_, _, _, _, _, _)
LayoutNode(nodes, i, x, depth, parent_width, ctx) ==
    LET slot == IF ctx.reverse THEN depth ELSE ctx.max_depth - depth
        placed == [nodes EXCEPT ![i].depth = slot, ![i].x = x,
                                ![i].y = slot * (rect_height + v_spacing)]
    IN IF placed[i].parent # 0 /\ placed[placed[i].parent].value = 0
       THEN [ok |-> FALSE, nodes |-> placed]
       ELSE LET w == IF placed[i].parent # 0
                     THEN NodeWidth(placed, i, parent_width)
                     ELSE RInt(ctx.total_width)
                sized == [placed EXCEPT ![i].width = w]
            IN LayoutChildren(sized, SortedChildren(sized, sized[i].children),
                              x, depth + 1, w, ctx)

LayoutChildren(nodes, order, current_x, depth, parent_width, ctx) ==
    IF order = <<>> THEN [ok |-> TRUE, nodes |-> nodes]
    ELSE LET r == LayoutNode(nodes, Head(order), current_x, depth, parent_width, ctx)
         IN IF ~r.ok THEN r
            ELSE LayoutChildren(r.nodes, Tail(order),
                                RAdd(current_x, r.nodes[Head(order)].width),
                                depth, parent_width, ctx)

\* the whole pass: [exc, nodes, scene_rect]
CalculateLayout(nodes, view_width, reverse, scene) ==
    LET total_width == IF view_width - ViewportMargin > MinTotalWidth
                       THEN view_width - ViewportMargin ELSE MinTotalWidth
        ctx == [reverse |-> reverse, max_depth |-> GetMaxDepth(nodes, 1),
                total_width |-> total_width]
        r == LayoutNode(nodes, 1, Zero, 0, RInt(total_width), ctx)
        laid == r.nodes
        inner == 2..Len(laid)
        min_y == IF inner = {} THEN 0 ELSE Min({laid[i].y : i \in inner})
        max_y == IF inner = {} THEN rect_height
                 ELSE Max({laid[i].y + rect_height : i \in inner})
        scene_height == max_y - min_y + rect_height
        y_offset == IF reverse THEN rect_height ELSE -max_y
    IN IF ~r.ok
       THEN [exc |-> "ZeroDivisionError", nodes |-> laid, scene_rect |-> scene]
       ELSE [exc |-> "none",
             nodes |-> [i \in 1..Len(laid) |->
                          IF i = 1 THEN laid[i]
                          ELSE [laid[i] EXCEPT !.y = @ + y_offset]],
             scene_rect |-> IF reverse
                            THEN <<0, 0, total_width, scene_height + rect_height>>
                            ELSE <<0, -scene_height, total_width, scene_height>>]

(***************************************************************************)
(* FlameGraphWidget._update_flame_graph.  _calculate_layout is a method of *)
(* class FlameGraphView (line 121); FlameGraphWidget (line 214) derives    *)
(* from QWidget and has no such attribute, so the call at line 620 raises  *)
(* AttributeError after the tree is stored and before anything is drawn.   *)
(* The result is [root, rect_items, exc].                                  *)
(***************************************************************************)
UpdateFlameGraph(traces, allocations, root, reverse) ==
    IF traces = EmptyDict \/ allocations = EmptyDict
    THEN [root |-> root, rect_items |-> EmptyDict, exc |-> "none"]
    ELSE LET built == BuildNodeTree(traces, allocations, reverse)
         IN IF built.status # "ok"
            THEN [root |-> root, rect_items |-> EmptyDict, exc |-> built.status]
            ELSE [root |-> built.nodes, rect_items |-> EmptyDict, exc |-> "AttributeError"]

(***************************************************************************)
(* StackTreeWidget: the CallTreeNode tree update_data builds, as an arena  *)
(* (node 1 is the root, children maps a key to an arena index).  The tree  *)
(* items _build_tree_items creates mirror the nodes below the root.        *)
(***************************************************************************)
CallTreeNode(frame) ==
    [frame |-> frame, children |-> EmptyDict, total_size |-> 0,
     allocation_count |-> 0, stack_hashes |-> {}]

\* f"{frame.module}::{frame.function}"
FrameKey(frame) == frame.module \o <<":", ":">> \o frame.function

RECURSIVE add_stack(_, _, _, _, _)
add_stack(nodes, i, frames, hash_id, size) ==
    LET counted == [nodes EXCEPT ![i].total_size = @ + size,
                                 ![i].allocation_count = @ + 1,
                                 ![i].stack_hashes = @ \cup {hash_id}]
    IN IF frames = <<>> THEN counted
       ELSE LET frame == Head(frames)
                key == FrameKey(frame)
                grown == IF HasKey(counted[i].children, key) THEN counted
                         ELSE Append([counted EXCEPT
                                         ![i].children = DictPut(@, key, Len(nodes) + 1)],
                                     CallTreeNode(Some(frame)))
            IN add_stack(grown, DictGet(grown[i].children, key),
                         Tail(frames), hash_id, size)

\* the loop of StackTreeWidget.update_data over traces.items()
RECURSIVE AddStacks(_, _, _)
AddStacks(nodes, entries, allocations) ==
    IF entries = <<>> THEN nodes
    ELSE LET hash_id == entries[1].key
             allocs == GetOr(allocations, hash_id, <<>>)
             total_size == SumSeq([j \in 1..Len(allocs) |-> allocs[j].size])
         IN AddStacks(IF total_size > 0
                      THEN add_stack(nodes, 1, entries[1].val.frames, hash_id, total_size)
                      ELSE nodes,
                      Tail(entries), allocations)

StackTreeWidget_update_data(traces, allocations) ==
    AddStacks(<<CallTreeNode(None)>>, traces, allocations)

(***************************************************************************)
(* MemoryAnalyzerWindow.  Status bar messages:                             *)
(*   <<"ready">> is 就绪, <<"stack file loaded">> is 已加载堆栈文件,       *)
(*   <<"allocation file loaded">> is 已加载分配文件, <<"load failed">> is  *)
(*   加载文件失败, <<"stack", h, n, size>> is 堆栈 h: n 次分配, 总大小.    *)
(***************************************************************************)
\* update_views: [stack_tree, flame, timeline, exc].  flame_graph.update_data
\* raises out of update_views before the timeline is reached.
update_views(sp, ap, root, reverse, timeline) ==
    LET traces == sp.traces
        allocations == [i \in 1..Len(traces) |->
                           [key |-> traces[i].key,
                            val |-> get_hash_allocations(ap, traces[i].key)]]
        flame == UpdateFlameGraph(traces, allocations, root, reverse)
        range == get_frame_range(ap)
        frame_data == [i \in 1..(range[2] - range[1] + 1) |->
                          [key |-> range[1] + i - 1,
                           val |-> get_frame_total_size(ap, range[1] + i - 1)]]
    IN [stack_tree |-> StackTreeWidget_update_data(traces, allocations),
        _traces |-> traces,
        _allocations |-> allocations,
        flame |-> flame,
        timeline |-> IF flame.exc = "none" THEN frame_data ELSE timeline,
        exc |-> flame.exc]

\* what FlameGraphWidget._allocations shows of the parser's lists: a list
\* taken from _hash_data is that list object and grows with it, a list of a
\* hash id that had no record is a list of its own
SharedAllocations(allocations, ap) ==
    [i \in 1..Len(allocations) |->
        IF allocations[i].val = <<>> THEN allocations[i]
        ELSE [allocations[i] EXCEPT !.val = get_hash_allocations(ap, allocations[i].key)]]

WindowInit ==
    /\ traces_shared = FALSE
    /\ stack_tree = <<CallTreeNode(None)>>
    /\ timeline_frame_data = EmptyDict
    /\ status = <<"ready">>
    /\ chosen = <<None, None>>
    /\ loads = 0

(***************************************************************************)
(* The corpora a caller can hand to update_data: per hash id a trace of 1  *)
(* to MaxFrames frames or none, and an allocation list or none.  The       *)
(* widget reads an allocation list through sum() and len() only, so a list *)
(* is empty or holds one record of a size in 0..MaxSize.  _traces is only  *)
(* ever indexed and tested for emptiness, so its entries are kept in one   *)
(* order; _allocations is iterated, so both entry orders occur.            *)
(***************************************************************************)
HashOrder == <<<<"a">>, <<"b">>>>

FrameSeqs == {fs \in SeqsUpTo({StackFrame(<<>>, <<>>, n, None) : n \in Names}, MaxFrames) :
                 fs # <<>>}
\* the allocation list of hash id h: no record (n < 0) or one record of size n
AllocList(h, n) ==
    IF n < 0 THEN <<>> ELSE <<AllocationRecord(n, h, <<>>, <<>>, None)>>

\* the sub-sequences of HashOrder, and all orderings of its subsets
KeySeqsInOrder == {<<>>, <<HashOrder[1]>>, <<HashOrder[2]>>, HashOrder}
KeySeqsAnyOrder == KeySeqsInOrder \cup {Reverse(HashOrder)}

TraceDicts ==
    UNION {{[i \in 1..Len(ks) |-> [key |-> ks[i], val |-> StackTrace(ks[i], f[i])]] :
                f \in [1..Len(ks) -> FrameSeqs]} : ks \in KeySeqsInOrder}
AllocDicts ==
    UNION {{[i \in 1..Len(ks) |-> [key |-> ks[i], val |-> AllocList(ks[i], n[i])]] :
                n \in [1..Len(ks) -> Sizes \cup {-1}]} : ks \in KeySeqsAnyOrder}

Corpora == [traces : TraceDicts, allocations : AllocDicts]

(***************************************************************************)
(* Colours, brushes and pens.  hash(name) is fixed for the run of the      *)
(* process and is kept as the term <<"hash", name>>; a colour is the term  *)
(* of the calls that make it.                                              *)
(***************************************************************************)
Hash(name) == <<"hash", name>>
Rgb(r, g, b, a) == <<"rgba", r, g, b, a>>
FromHsv(h, s, v) == <<"hsv", h, s, v>>
Lighter(color, factor) == <<"lighter", color, factor>>
Mod(h, n) == <<"mod", h, n>>
Plus(n, h) == <<"plus", n, h>>

SolidBrush(color) == [style |-> "solid", stops |-> <<color>>]
LinearGradient(top, bottom) == [style |-> "linear", stops |-> <<top, bottom>>]
Pen(color, width) == [color |-> color, width |-> width]

\* _setup_colors
Colors(key) ==
    CASE key = "highlight" -> Rgb(97, 175, 239, 255)
      [] key = "warning" -> Rgb(229, 192, 123, 255)
      [] key = "error" -> Rgb(224, 108, 117, 255)
      [] key = "success" -> Rgb(152, 195, 121, 255)

HighlightPen == Pen(Colors("highlight"), <<2, 1>>)
BlackPen == Pen(Rgb(0, 0, 0, 255), <<1, 2>>)
MatchBrush == SolidBrush(Rgb(255, 255, 0, 100))

\* str.lower() on the tokens of the model
Lower(s) == [i \in 1..Len(s) |-> IF s[i] = "F" THEN "f" ELSE s[i]]

\* t in s
Contains(s, t) == \E i \in 0..(Len(s) - Len(t)) : SubSeq(s, i + 1, i + Len(t)) = t

\* FlameGraphNode._generate_color
GenerateColor(name) == FromHsv(Mod(Hash(name), 360), 200, 230)

_get_color(name) ==
    LET low == Lower(name)
        base_color ==
            IF Contains(low, <<"error">>) \/ Contains(low, <<"exception">>)
            THEN Colors("error")
            ELSE IF Contains(low, <<"warning">>) THEN Colors("warning")
            ELSE IF Contains(low, <<"success">>) \/ Contains(low, <<"ok">>)
            THEN Colors("success")
            ELSE FromHsv(Mod(Hash(name), 360), 200, 230)
    IN Lighter(base_color, Plus(100, Mod(Hash(name), 30)))

(***************************************************************************)
(* References.  The nodes of the tree built by the g-th call of            *)
(* _build_node_tree are the objects (g, index in the arena); a rectangle   *)
(* is the object of the node it was created for.  selected_node holds      *)
(* None, a node, or whatever else a caller handed to _on_rect_clicked (a   *)
(* set of hash ids).                                                       *)
(***************************************************************************)
NoNode == [kind |-> "none", gen |-> 0, idx |-> 0, name |-> <<>>, value |-> 0, hash_ids |-> {}]
\* node i of the tree of generation g, with the fields that stay as built
NodeRef(nodes, g, i) ==
    [kind |-> "node", gen |-> g, idx |-> i, name |-> nodes[i].name,
     value |-> nodes[i].value, hash_ids |-> nodes[i].hash_ids]
\* a set of hash ids (it has no name, value or hash_ids attribute)
IdSet(ids) == [kind |-> "set", gen |-> 0, idx |-> 0, name |-> <<>>, value |-> 0, hash_ids |-> ids]
\* the rectangle created for a node
RectRef(node) == [kind |-> "rect", gen |-> node.gen, idx |-> node.idx]

\* bool(x) of such a value
Truthy(x) == x.kind = "node" \/ (x.kind = "set" /\ x.hash_ids # {})

\* _collect_nodes_to_draw: the arena indices in preorder
RECURSIVE Concat(_)
Concat(ss) == IF ss = <<>> THEN <<>> ELSE Head(ss) \o Concat(Tail(ss))

RECURSIVE CollectNodesToDraw(_, _)
CollectNodesToDraw(nodes, i) ==
    <<i>> \o Concat([k \in 1..Len(nodes[i].children) |->
                        CollectNodesToDraw(nodes, nodes[i].children[k])])

\* _create_rect_item for node i of the tree of generation g
_create_rect_item(nodes, g, i, selected) ==
    [node |-> NodeRef(nodes, g, i),
     rect |-> <<nodes[i].x, nodes[i].y, RMax(RInt(min_width), nodes[i].width), rect_height>>,
     brush |-> LinearGradient(Lighter(GenerateColor(nodes[i].name), 120),
                              GenerateColor(nodes[i].name)),
     pen |-> IF NodeRef(nodes, g, i) = selected THEN HighlightPen ELSE BlackPen,
     data0 |-> nodes[i].name,
     data1 |-> nodes[i].hash_ids]

\* _draw_nodes_batch: the new _rect_items, keyed by node, in insertion order
_draw_nodes_batch(nodes, g, selected) ==
    LET nodes_to_draw == CollectNodesToDraw(nodes, 1)
        drawn_nodes == SelectSeq(nodes_to_draw, LAMBDA i : nodes[i].parent # 0)
    IN [k \in 1..Len(drawn_nodes) |-> _create_rect_item(nodes, g, drawn_nodes[k], selected)]

(***************************************************************************)
(* The widget as a state machine.                                          *)
(***************************************************************************)
\* the widths the viewport of the view takes
ViewportWidths == {640, 1020}

\* selected_node, search_results, last_update_time, the timer and the
\* widgets of the search bar after __init__
SearchInit ==
    /\ drawn = 0
    /\ selected_node = NoNode
    /\ search_results = <<>>
    /\ search_text = <<>>
    /\ age = IntervalTicks
    /\ key_age = IntervalTicks
    /\ timer = -1
    /\ emitted = {}
    /\ status_label = None

WidgetInit ==
    /\ _traces = EmptyDict
    /\ _allocations = EmptyDict
    /\ _root = None
    /\ _rect_items = EmptyDict
    /\ reverse_stack = FALSE
    /\ scene_rect = <<0, 0, 0, 0>>
    /\ viewport_width = Max(ViewportWidths)
    /\ SearchInit

Init ==
    /\ corpus \in Corpora
    /\ WidgetInit
    /\ passes = 0
    /\ IdleFile
    /\ ParserInit
    /\ WindowInit
    /\ last_op = "init"
    /\ exc = "none"

\* update_data(traces, allocations)
DoUpdateData(traces, allocations) ==
    \E r \in {UpdateFlameGraph(traces, allocations, _root, reverse_stack)} :
       /\ _traces' = traces
       /\ _allocations' = allocations
       /\ _root' = r.root
       /\ _rect_items' = r.rect_items
       /\ exc' = r.exc
       /\ last_op' = "update_data"
       /\ UNCHANGED <<reverse_stack, scene_rect, outsideWidget>>

UpdateData ==
    /\ DoUpdateData(corpus.traces, corpus.allocations)
    /\ UNCHANGED corpus

\* update_data with zero traces or zero allocation entries
UpdateDataEmpty ==
    /\ \E c \in {[traces |-> EmptyDict, allocations |-> corpus.allocations],
                 [traces |-> corpus.traces, allocations |-> EmptyDict]} :
          DoUpdateData(c.traces, c.allocations)
    /\ UNCHANGED corpus

\* _toggle_stack_order as a function of the fields it reads: the button is
\* checkable, so a click flips isChecked(); the result is [reverse_stack,
\* root, rect_items, exc]
ToggleResult(traces, allocations, root, rect_items, reverse) ==
    LET r == IF root # None
             THEN UpdateFlameGraph(traces, allocations, root, ~reverse)
             ELSE [root |-> root, rect_items |-> rect_items, exc |-> "none"]
    IN [reverse_stack |-> ~reverse, root |-> r.root, rect_items |-> r.rect_items,
        exc |-> r.exc]

ToggleStackOrder ==
    \E r \in {ToggleResult(_traces, _allocations, _root, _rect_items, reverse_stack)} :
       /\ reverse_stack' = r.reverse_stack
       /\ _root' = r.root
       /\ _rect_items' = r.rect_items
       /\ exc' = r.exc
       /\ last_op' = "toggle"
       /\ UNCHANGED <<corpus, _traces, _allocations, scene_rect, outsideWidget>>

\* resizeEvent: with a root it calls self._calculate_layout (AttributeError)
ResizeEvent ==
    /\ exc' = IF _root # None THEN "AttributeError" ELSE "none"
    /\ last_op' = "resize"
    /\ UNCHANGED <<corpus, widgetVars, outsideWidget>>

Next == UpdateData \/ UpdateDataEmpty \/ ToggleStackOrder \/ ResizeEvent

Spec == Init /\ [][Next]_vars

(***************************************************************************)
(* The layout as a function of a built tree: a corpus and a mode are       *)
(* drawn, _build_node_tree is applied to them, and _calculate_layout is    *)
(* applied to its result with the attributes it reads (viewport width,     *)
(* reverse_stack, rect_height, v_spacing, the scene), pass after pass.     *)
(***************************************************************************)
LayoutInit ==
    /\ corpus \in Corpora
    /\ _traces = corpus.traces
    /\ _allocations = corpus.allocations
    /\ _root = None
    /\ _rect_items = EmptyDict
    /\ SearchInit
    /\ reverse_stack \in BOOLEAN
    /\ scene_rect = <<0, 0, 0, 0>>
    /\ viewport_width = Max(ViewportWidths)
    /\ passes = 0
    /\ IdleFile
    /\ ParserInit
    /\ WindowInit
    /\ last_op = "init"
    /\ exc = "none"

BuildTree ==
    /\ _root = None
    /\ _traces # EmptyDict /\ _allocations # EmptyDict
    /\ \E built \in {BuildNodeTree(_traces, _allocations, reverse_stack)} :
          /\ _root' = built.nodes
          /\ exc' = IF built.status = "ok" THEN "none" ELSE built.status
    /\ last_op' = "build"
    /\ UNCHANGED <<corpus, _traces, _allocations, _rect_items, reverse_stack,
                   scene_rect, viewport_width, passes, outsideLayout>>

LayoutPass ==
    /\ _root # None
    /\ passes < MaxPasses
    /\ \E w \in ViewportWidths :
       \E r \in {CalculateLayout(_root, w, reverse_stack, scene_rect)} :
          /\ viewport_width' = w
          /\ _root' = r.nodes
          /\ scene_rect' = r.scene_rect
          /\ exc' = r.exc
    /\ passes' = passes + 1
    /\ last_op' = "layout"
    /\ UNCHANGED <<corpus, _traces, _allocations, _rect_items, reverse_stack,
                   outsideLayout>>

LayoutNext == BuildTree \/ LayoutPass

SpecLayout == LayoutInit /\ [][LayoutNext]_vars

(***************************************************************************)
(* The parsers as a state machine: a caller holds one file, of stack       *)
(* traces or of allocation records, and hands it to parse_file of the      *)
(* matching parser, which keeps its state from one call to the next.       *)
(***************************************************************************)
StackLineKinds ==
    {<<>>, <<"hash", ":", "a">>, <<"hash", ":", " ", "b">>, <<"hash", ":">>,
     <<"f">>, <<" ", "g">>, <<"0x1", " ", "(m)", " ", "f">>}

AllocLineKinds ==
    {<<>>, <<"size", ":", " ", "1">>, <<"size", ":", "x">>, <<"hash", ":", " ", "a">>,
     <<"frame", ":", "2">>, <<"frame", ":", "5">>, <<"frame", ":", "x">>, <<"junk">>}

TextFile(kind, lines) == [kind |-> kind, readable |-> TRUE, lines |-> lines]
Unreadable(kind) == [kind |-> kind, readable |-> FALSE, lines |-> <<>>]

\* the files of up to max_lines lines, and a file of each kind that cannot be opened
ParseFiles(max_lines) ==
    {TextFile("stack", l) : l \in SeqsUpTo(StackLineKinds, max_lines)} \cup
    {TextFile("alloc", l) : l \in SeqsUpTo(AllocLineKinds, max_lines)} \cup
    {Unreadable("stack"), Unreadable("alloc")}

NoCorpus == [traces |-> EmptyDict, allocations |-> EmptyDict]

ParseInit ==
    /\ file \in ParseFiles(MaxLines)
    /\ corpus = NoCorpus
    /\ WidgetInit
    /\ passes = 0
    /\ ParserInit
    /\ WindowInit
    /\ last_op = "init"
    /\ exc = "none"

ParseStackFile ==
    /\ file.kind = "stack"
    /\ parses < MaxParses
    /\ \E r \in {StackParser_parse_file(stack_parser, file)} :
          /\ stack_parser' = r.parser
          /\ exc' = r.exc
    /\ parses' = parses + 1
    /\ last_op' = "parse_stack"
    /\ UNCHANGED <<corpus, widgetVars, searchVars, viewport_width, passes, file,
                   alloc_parser, windowVars, loads>>

ParseAllocFile ==
    /\ file.kind = "alloc"
    /\ parses < MaxParses
    /\ \E r \in {AllocationParser_parse_file(alloc_parser, file)} :
          /\ alloc_parser' = r.parser
          /\ exc' = r.exc
    /\ parses' = parses + 1
    /\ last_op' = "parse_alloc"
    /\ UNCHANGED <<corpus, widgetVars, searchVars, viewport_width, passes, file,
                   stack_parser, windowVars, loads>>

ParseNext == ParseStackFile \/ ParseAllocFile

SpecParse == ParseInit /\ [][ParseNext]_vars

(***************************************************************************)
(* _update_flame_graph with the call of line 620 bound to the function of  *)
(* line 121: the tree is built, laid out for the width of the viewport and *)
(* drawn.  g is the generation the new tree gets.  The result is [root,    *)
(* rect_items, scene_rect, built, exc].                                    *)
(***************************************************************************)
DrawFlameGraph(traces, allocations, root, reverse, scene, g, selected, width) ==
    IF traces = EmptyDict \/ allocations = EmptyDict
    THEN [root |-> root, rect_items |-> EmptyDict, scene_rect |-> scene,
          built |-> FALSE, exc |-> "none"]
    ELSE LET built == BuildNodeTree(traces, allocations, reverse)
             laid == CalculateLayout(built.nodes, width, reverse, scene)
         IN IF built.status # "ok"
            THEN [root |-> root, rect_items |-> EmptyDict, scene_rect |-> scene,
                  built |-> FALSE, exc |-> built.status]
            ELSE IF laid.exc # "none"
            THEN [root |-> laid.nodes, rect_items |-> EmptyDict, scene_rect |-> scene,
                  built |-> TRUE, exc |-> laid.exc]
            ELSE [root |-> laid.nodes,
                  rect_items |-> _draw_nodes_batch(laid.nodes, g, selected),
                  scene_rect |-> laid.scene_rect, built |-> TRUE, exc |-> "none"]

\* _perform_search on the rectangles and the result list: [rect_items,
\* search_results]
_perform_search(rect_items, results, text) ==
    LET Matches(r) == Contains(Lower(r.data0), Lower(text))
        found == SelectSeq(rect_items, Matches)
    IN [rect_items |-> [k \in 1..Len(rect_items) |->
                          IF Matches(rect_items[k])
                          THEN [rect_items[k] EXCEPT !.brush = MatchBrush]
                          ELSE [rect_items[k] EXCEPT
                                   !.brush = SolidBrush(_get_color(rect_items[k].data0))]],
        search_results |-> results \o [k \in 1..Len(found) |-> RectRef(found[k].node)]]

\* _clear_search: the rectangles with their brushes reset
_clear_search(rect_items) ==
    [k \in 1..Len(rect_items) |->
        [rect_items[k] EXCEPT !.brush = SolidBrush(_get_color(rect_items[k].data0))]]

\* sum(len(self._allocations[h]) for h in hash_ids): [ok, count]
RECURSIVE CountAllocations(_, _, _)
CountAllocations(allocations, ids, acc) ==
    IF ids = {} THEN [ok |-> TRUE, count |-> acc]
    ELSE LET h == CHOOSE x \in ids : TRUE
         IN IF ~HasKey(allocations, h) THEN [ok |-> FALSE, count |-> 0]
            ELSE CountAllocations(allocations, ids \ {h},
                                  acc + Len(DictGet(allocations, h)))

\* as _on_rect_clicked, with a selection that is already there kept
_on_rect_clicked_first_wins(rect_items, allocations, selected, node) ==
    LET counted == CountAllocations(allocations, node.hash_ids, 0)
        kept == IF selected.kind = "node" THEN selected ELSE node
    IN [selected_node |-> kept,
        emitted |-> {<<h, 1>> : h \in node.hash_ids},
        rect_items |-> [k \in 1..Len(rect_items) |->
                          IF rect_items[k].node = kept
                          THEN [rect_items[k] EXCEPT !.pen = HighlightPen]
                          ELSE rect_items[k]],
        status_label |-> IF counted.ok THEN <<node.name, node.value, counted.count>>
                         ELSE None,
        exc |-> IF counted.ok THEN "none" ELSE "KeyError"]

\* _on_rect_clicked(node): [selected_node, emitted, rect_items, status_label,
\* exc]; status_label None means it is left as it was
_on_rect_clicked(rect_items, allocations, selected, node) ==
    IF node.kind # "node"
    THEN [selected_node |-> node, emitted |-> {}, rect_items |-> rect_items,
          status_label |-> None, exc |-> "AttributeError"]
    ELSE LET counted == CountAllocations(allocations, node.hash_ids, 0)
         IN [selected_node |-> node,
             emitted |-> {<<h, 1>> : h \in node.hash_ids},
             rect_items |-> [k \in 1..Len(rect_items) |->
                               IF rect_items[k].node \in {selected, node}
                               THEN [rect_items[k] EXCEPT
                                        !.pen = IF rect_items[k].node = node
                                                THEN HighlightPen ELSE BlackPen]
                               ELSE rect_items[k]],
             status_label |-> IF counted.ok
                              THEN <<node.name, node.value, counted.count>>
                              ELSE None,
             exc |-> IF counted.ok THEN "none" ELSE "KeyError"]

\* _get_current_result_index: a rectangle is never equal to a node or a set
_get_current_result_index(results, selected) ==
    IF results = <<>> \/ ~Truthy(selected) THEN -1
    ELSE LET hits == {i \in 1..Len(results) : results[i] = selected}
         IN IF hits = {} THEN -1 ELSE Min(hits) - 1

(***************************************************************************)
(* The view as two state machines, one of the search box and its          *)
(* single-shot timer and one of the rectangles and the result buttons,     *)
(* both over the scene that update_data and the order button draw          *)
(* (DrawFlameGraph).                                                       *)
(* Time passes in ticks of which IntervalTicks make update_interval; age   *)
(* is time.time() - last_update_time and key_age the time since the last   *)
(* non-empty text was typed, both cut off at IntervalTicks; timer is -1    *)
(* when _update_timer is not active, else the ticks until it is due.       *)
(***************************************************************************)
Frame(function) == StackFrame(<<>>, <<>>, function, None)

ViewCorpora ==
    {[traces |-> <<[key |-> <<"a">>,
                    val |-> StackTrace(<<"a">>, <<Frame(<<"f">>), Frame(<<"F", "g">>)>>)],
                   [key |-> <<"b">>, val |-> StackTrace(<<"b">>, <<Frame(<<"f">>)>>)]>>,
      allocations |-> <<[key |-> <<"a">>, val |-> AllocList(<<"a">>, 1)],
                        [key |-> <<"b">>, val |-> AllocList(<<"b">>, 2)]>>],
     [traces |-> <<[key |-> <<"a">>, val |-> StackTrace(<<"a">>, <<Frame(<<"F", "g">>)>>)]>>,
      allocations |-> <<[key |-> <<"a">>, val |-> AllocList(<<"a">>, 1)]>>],
     [traces |-> <<[key |-> <<"a">>, val |-> StackTrace(<<"a">>, <<Frame(<<"f">>)>>)]>>,
      allocations |-> <<[key |-> <<"a">>, val |-> AllocList(<<"a">>, 0)]>>],
     NoCorpus}

\* the texts typed into search_input
SearchTexts == {<<>>, <<"F">>, <<"g">>}

\* int(self.update_interval * 1000) ms, in ticks
TimerTicks == IntervalTicks

ViewInit ==
    /\ corpus = NoCorpus
    /\ WidgetInit
    /\ passes = 0
    /\ IdleFile
    /\ ParserInit
    /\ WindowInit
    /\ last_op = "init"
    /\ exc = "none"

\* what a handler of the search box leaves alone
outsideSearch ==
    <<corpus, _traces, _allocations, _root, reverse_stack, scene_rect, drawn,
      selected_node, status_label, viewport_width, passes, file, parserVars, parses,
      windowVars, loads>>

\* update_data(traces, allocations) of a corpus the caller picks
ViewUpdateData ==
    /\ drawn < MaxDraws
    /\ \E c \in ViewCorpora :
       \E r \in {DrawFlameGraph(c.traces, c.allocations, _root, reverse_stack,
                                scene_rect, drawn + 1, selected_node, viewport_width)} :
          /\ corpus' = c
          /\ _traces' = c.traces
          /\ _allocations' = c.allocations
          /\ _root' = r.root
          /\ _rect_items' = r.rect_items
          /\ scene_rect' = r.scene_rect
          /\ drawn' = IF r.built THEN drawn + 1 ELSE drawn
          /\ exc' = r.exc
    /\ last_op' = "update_data"
    /\ emitted' = {}
    /\ UNCHANGED <<reverse_stack, selected_node, search_results, search_text, age,
                   key_age, timer, status_label, viewport_width, passes, file, parserVars,
                   parses, windowVars, loads>>

\* _toggle_stack_order
ViewToggleStackOrder ==
    /\ _root = None \/ drawn < MaxDraws
    /\ reverse_stack' = ~reverse_stack
    /\ IF _root = None
       THEN /\ exc' = "none"
            /\ UNCHANGED <<_root, _rect_items, scene_rect, drawn, status_label>>
       ELSE \E r \in {DrawFlameGraph(_traces, _allocations, _root, ~reverse_stack,
                                     scene_rect, drawn + 1, selected_node,
                                     viewport_width)} :
               /\ _root' = r.root
               /\ _rect_items' = r.rect_items
               /\ scene_rect' = r.scene_rect
               /\ drawn' = IF r.built THEN drawn + 1 ELSE drawn
               /\ IF r.exc # "none" \/ ~Truthy(selected_node) \/ status_label = None
                  THEN exc' = r.exc /\ UNCHANGED status_label
                  ELSE IF selected_node.kind # "node"
                  THEN exc' = "AttributeError" /\ UNCHANGED status_label
                  ELSE \E counted \in {CountAllocations(_allocations,
                                                        selected_node.hash_ids, 0)} :
                          IF counted.ok
                          THEN /\ exc' = "none"
                               /\ status_label' = <<selected_node.name, selected_node.value,
                                                    counted.count>>
                          ELSE exc' = "KeyError" /\ UNCHANGED status_label
    /\ last_op' = "toggle"
    /\ emitted' = {}
    /\ UNCHANGED <<corpus, _traces, _allocations, selected_node, search_results,
                   search_text, age, key_age, timer, viewport_width, passes, file,
                   parserVars, parses, windowVars, loads>>

\* as TooSoon, with no search ever too soon
TooSoonNever(since_search) == FALSE

\* current_time - self.last_update_time < self.update_interval
TooSoon(since_search) == since_search < IntervalTicks

\* textChanged(text) -> _handle_search(text): the text in the box changes
Keystroke ==
    \E text \in SearchTexts \ {search_text} :
       /\ search_text' = text
       /\ IF text = <<>>
          THEN /\ _rect_items' = _clear_search(_rect_items)
               /\ search_results' = <<>>
               /\ last_op' = "search_cleared"
               /\ UNCHANGED <<age, key_age, timer>>
          ELSE IF TooSoon(age)
          THEN /\ search_results' = <<>>
               /\ timer' = TimerTicks
               /\ key_age' = 0
               /\ last_op' = "search_deferred"
               /\ UNCHANGED <<_rect_items, age>>
          ELSE \E r \in {_perform_search(_rect_items, <<>>, text)} :
                  /\ _rect_items' = r.rect_items
                  /\ search_results' = r.search_results
                  /\ age' = 0
                  /\ key_age' = 0
                  /\ last_op' = "search_now"
                  /\ UNCHANGED timer
       /\ exc' = "none"
       /\ emitted' = {}
       /\ UNCHANGED outsideSearch

\* search_clear_btn.clicked -> _clear_search; search_input.clear() sends
\* textChanged('') when the box held a text, and _handle_search('') clears
\* once more
ClearSearch ==
    /\ _rect_items' = _clear_search(_rect_items)
    /\ search_results' = <<>>
    /\ search_text' = <<>>
    /\ last_op' = "clear"
    /\ exc' = "none"
    /\ emitted' = {}
    /\ UNCHANGED <<age, key_age, timer>>
    /\ UNCHANGED outsideSearch

\* time passes
Tick ==
    /\ age < IntervalTicks \/ key_age < IntervalTicks \/ timer > 0
    /\ age' = Min({age + 1, IntervalTicks})
    /\ key_age' = Min({key_age + 1, IntervalTicks})
    /\ timer' = IF timer > 0 THEN timer - 1 ELSE timer
    /\ last_op' = "tick"
    /\ exc' = "none"
    /\ emitted' = {}
    /\ UNCHANGED <<_rect_items, search_results, search_text>>
    /\ UNCHANGED outsideSearch

\* _update_timer.timeout -> _perform_delayed_update
TimerFire ==
    /\ timer = 0
    /\ timer' = -1
    /\ IF search_text # <<>>
       THEN \E r \in {_perform_search(_rect_items, search_results, search_text)} :
               /\ _rect_items' = r.rect_items
               /\ search_results' = r.search_results
               /\ age' = 0
       ELSE UNCHANGED <<_rect_items, search_results, age>>
    /\ last_op' = "timer"
    /\ exc' = "none"
    /\ emitted' = {}
    /\ UNCHANGED <<search_text, key_age>>
    /\ UNCHANGED outsideSearch

\* the rectangle search_results[index] is an object of the scene
IsLive(rect_items, ref) == \E k \in 1..Len(rect_items) : RectRef(rect_items[k].node) = ref
RectOf(rect_items, ref) ==
    rect_items[CHOOSE k \in 1..Len(rect_items) : RectRef(rect_items[k].node) = ref]

\* _highlight_result(index), index counted from 0: centerOn and data(1) of a
\* rectangle that scene.clear() deleted raise RuntimeError
GotoResult(index) ==
    LET item == search_results[index + 1]
    IN IF ~IsLive(_rect_items, item)
       THEN /\ exc' = "RuntimeError"
            /\ emitted' = {}
            /\ UNCHANGED <<selected_node, _rect_items, status_label>>
       ELSE \E r \in {_on_rect_clicked(_rect_items, _allocations, selected_node,
                                       IdSet(RectOf(_rect_items, item).data1))} :
               /\ selected_node' = r.selected_node
               /\ emitted' = r.emitted
               /\ _rect_items' = r.rect_items
               /\ status_label' = IF r.status_label = None THEN status_label
                                  ELSE r.status_label
               /\ exc' = r.exc

viewFrame ==
    <<corpus, _traces, _allocations, _root, reverse_stack, scene_rect, drawn,
      search_results, search_text, age, key_age, timer, viewport_width, passes, file,
      parserVars, parses, windowVars, loads>>

\* search_next_btn.clicked -> _goto_next_result
GotoNextResult ==
    /\ IF search_results = <<>>
       THEN /\ exc' = "none" /\ emitted' = {}
            /\ UNCHANGED <<selected_node, _rect_items, status_label>>
       ELSE GotoResult((_get_current_result_index(search_results, selected_node) + 1)
                          % Len(search_results))
    /\ last_op' = "next"
    /\ UNCHANGED viewFrame

\* search_prev_btn.clicked -> _goto_prev_result
GotoPrevResult ==
    /\ IF search_results = <<>>
       THEN /\ exc' = "none" /\ emitted' = {}
            /\ UNCHANGED <<selected_node, _rect_items, status_label>>
       ELSE GotoResult((_get_current_result_index(search_results, selected_node) - 1)
                          % Len(search_results))
    /\ last_op' = "prev"
    /\ UNCHANGED viewFrame

\* mousePressEvent of a rectangle of the scene -> _on_rect_clicked(node)
RectClicked ==
    /\ \E k \in 1..Len(_rect_items) :
       \E r \in {_on_rect_clicked(_rect_items, _allocations, selected_node,
                                  _rect_items[k].node)} :
          /\ selected_node' = r.selected_node
          /\ emitted' = r.emitted
          /\ _rect_items' = r.rect_items
          /\ status_label' = IF r.status_label = None THEN status_label
                             ELSE r.status_label
          /\ exc' = r.exc
    /\ last_op' = "click"
    /\ UNCHANGED viewFrame

\* more than update_interval passes without an event: the timer, if it is
\* active, fires on the way (_perform_delayed_update)
Settle ==
    /\ age < IntervalTicks \/ key_age < IntervalTicks \/ timer >= 0
    /\ IF timer >= 0 /\ search_text # <<>>
       THEN \E r \in {_perform_search(_rect_items, search_results, search_text)} :
               /\ _rect_items' = r.rect_items
               /\ search_results' = r.search_results
       ELSE UNCHANGED <<_rect_items, search_results>>
    /\ timer' = -1
    /\ age' = IntervalTicks
    /\ key_age' = IntervalTicks
    /\ last_op' = "settle"
    /\ exc' = "none"
    /\ emitted' = {}
    /\ UNCHANGED search_text
    /\ UNCHANGED outsideSearch

\* the search box and its timer, tick by tick
SearchNext ==
    \/ ViewUpdateData
    \/ ViewToggleStackOrder
    \/ Keystroke
    \/ ClearSearch
    \/ Tick
    \/ TimerFire

SpecSearch == ViewInit /\ [][SearchNext]_vars

\* the timer is served by the event loop and time passes
SpecSearchFair == SpecSearch /\ WF_vars(Tick) /\ WF_vars(TimerFire)

\* the rectangles and the result buttons, with the time between two events
\* either shorter than a tick or longer than update_interval
SelectNext ==
    \/ ViewUpdateData
    \/ ViewToggleStackOrder
    \/ Keystroke
    \/ ClearSearch
    \/ Settle
    \/ GotoNextResult
    \/ GotoPrevResult
    \/ RectClicked

SpecSelect == ViewInit /\ [][SelectNext]_vars

\* resizeEvent with the call of line 770 bound to the function of line 121:
\* the viewport takes a width and, with a root, the tree is laid out again
ViewResizeEvent ==
    /\ passes < MaxPasses
    /\ \E w \in ViewportWidths :
          /\ viewport_width' = w
          /\ IF _root = None
             THEN /\ exc' = "none"
                  /\ UNCHANGED <<_root, scene_rect, status_label>>
             ELSE \E r \in {CalculateLayout(_root, w, reverse_stack, scene_rect)} :
                     /\ _root' = r.nodes
                     /\ scene_rect' = r.scene_rect
                     /\ IF r.exc # "none" \/ status_label = None \/ ~Truthy(selected_node)
                        THEN exc' = r.exc /\ UNCHANGED status_label
                        ELSE IF selected_node.kind # "node"
                        THEN exc' = "AttributeError" /\ UNCHANGED status_label
                        ELSE \E counted \in {CountAllocations(_allocations,
                                                              selected_node.hash_ids, 0)} :
                                IF counted.ok
                                THEN /\ exc' = "none"
                                     /\ status_label' = <<selected_node.name,
                                                          selected_node.value, counted.count>>
                                ELSE exc' = "KeyError" /\ UNCHANGED status_label
    /\ passes' = passes + 1
    /\ last_op' = "resize"
    /\ emitted' = {}
    /\ UNCHANGED <<corpus, _traces, _allocations, _rect_items, reverse_stack, drawn,
                   selected_node, search_results, search_text, age, key_age, timer, file,
                   parserVars, parses, windowVars, loads>>

\* reloads, toggles, resizes and clicks
RedrawNext ==
    \/ ViewUpdateData
    \/ ViewToggleStackOrder
    \/ ViewResizeEvent
    \/ RectClicked

SpecRedraw == ViewInit /\ [][RedrawNext]_vars

(***************************************************************************)
(* The window as a state machine: load_all_file with the two files the     *)
(* user picks in the dialogs (None when a dialog is cancelled), and        *)
(* on_stack_selected for a hash id of a tree item.                         *)
(***************************************************************************)
LoadStackFiles ==
    {Unreadable("stack"),
     TextFile("stack", <<<<"hash", ":", "a">>, <<"f">>>>),
     TextFile("stack", <<<<"hash", ":", "a">>, <<"f">>, <<"g">>,
                         <<"hash", ":", "b">>, <<"f">>>>),
     TextFile("stack", <<<<"hash", ":", "b">>, <<"g">>>>),
     TextFile("stack", <<<<"hash", ":", "a">>, <<"0x1", " ", "(m)", " ", "f">>,
                         <<"hash", ":", "b">>, <<"f">>>>)}

LoadAllocFiles ==
    {Unreadable("alloc"),
     TextFile("alloc", <<<<"size", ":", "1">>, <<"hash", ":", "a">>, <<"frame", ":", "2">>>>),
     TextFile("alloc", <<<<"size", ":", "2">>, <<"hash", ":", "b">>, <<>>,
                         <<"size", ":", "1">>, <<"hash", ":", "a">>, <<"frame", ":", "3">>>>),
     TextFile("alloc", <<<<"size", ":", "1">>, <<"hash", ":", "a">>, <<>>, <<"junk">>>>)}

LoadInit ==
    /\ corpus = NoCorpus
    /\ WidgetInit
    /\ passes = 0
    /\ IdleFile
    /\ ParserInit
    /\ WindowInit
    /\ last_op = "init"
    /\ exc = "none"

\* load_all_file
LoadAllFile ==
    /\ loads < MaxLoads
    /\ \E stack_path \in {None} \cup {Some(f) : f \in LoadStackFiles},
          alloc_path \in {None} \cup {Some(f) : f \in LoadAllocFiles} :
       LET s == IF stack_path = None THEN [exc |-> "none", parser |-> stack_parser]
                ELSE StackParser_parse_file(stack_parser, stack_path[1])
           a == IF alloc_path = None THEN [exc |-> "none", parser |-> alloc_parser]
                ELSE AllocationParser_parse_file(alloc_parser, alloc_path[1])
           has_error == s.exc # "none" \/ a.exc # "none"
       IN /\ chosen' = <<stack_path, alloc_path>>
          /\ stack_parser' = s.parser
          /\ alloc_parser' = a.parser
          /\ IF has_error
             THEN /\ status' = <<"load failed">>
                  /\ exc' = "none"
                  /\ _traces' = IF traces_shared THEN s.parser.traces ELSE _traces
                  /\ _allocations' = SharedAllocations(_allocations, a.parser)
                  /\ UNCHANGED <<_root, _rect_items, traces_shared, stack_tree,
                                 timeline_frame_data>>
             ELSE \E v \in {update_views(s.parser, a.parser, _root, reverse_stack,
                                         timeline_frame_data)} :
                  /\ status' = IF alloc_path # None THEN <<"allocation file loaded">>
                               ELSE IF stack_path # None THEN <<"stack file loaded">>
                               ELSE status
                  /\ exc' = v.exc
                  /\ _traces' = v._traces
                  /\ _allocations' = v._allocations
                  /\ _root' = v.flame.root
                  /\ _rect_items' = v.flame.rect_items
                  /\ traces_shared' = TRUE
                  /\ stack_tree' = v.stack_tree
                  /\ timeline_frame_data' = v.timeline
    /\ loads' = loads + 1
    /\ last_op' = "load_all_file"
    /\ UNCHANGED <<corpus, reverse_stack, scene_rect, searchVars, viewport_width, passes,
                   file, parses>>

\* on_stack_selected(hash_id): a click on a tree item emits a hash id of
\* the item's node
OnStackSelected ==
    /\ \E i \in 2..Len(stack_tree) : \E hash_id \in stack_tree[i].stack_hashes :
       LET trace == get_trace(stack_parser, hash_id)
           allocations == get_hash_allocations(alloc_parser, hash_id)
       IN status' = IF trace # None /\ allocations # <<>>
                    THEN <<"stack", hash_id, Len(allocations),
                           SumSeq([j \in 1..Len(allocations) |-> allocations[j].size])>>
                    ELSE status
    /\ last_op' = "on_stack_selected"
    /\ exc' = "none"
    /\ UNCHANGED <<corpus, widgetVars, searchVars, viewport_width, passes, file,
                   parserVars, parses, traces_shared, stack_tree, timeline_frame_data,
                   chosen, loads>>

LoadNext == LoadAllFile \/ OnStackSelected

SpecLoad == LoadInit /\ [][LoadNext]_vars

(***************************************************************************)
(* Vocabulary of the properties of the merge tree.                         *)
(***************************************************************************)
\* size_by_hash[h]
SizeByHash(allocations, h) ==
    SumSeq([j \in 1..Len(DictGet(allocations, h)) |-> DictGet(allocations, h)[j].size])

RECURSIVE SizeOver(_, _)
SizeOver(allocations, S) ==
    IF S = {} THEN 0
    ELSE LET h == CHOOSE k \in S : TRUE
         IN SizeByHash(allocations, h) + SizeOver(allocations, S \ {h})

\* the hash ids of the allocation entries that have a matching trace
MatchedIds(traces, allocations) == KeySet(allocations) \cap KeySet(traces)

\* the function names of h's frames in walking order
Walked(h) ==
    LET fs == DictGet(_traces, h).frames
        names == [i \in 1..Len(fs) |-> fs[i].function]
    IN IF reverse_stack THEN Reverse(names) ELSE names

StartsWith(s, p) == Len(p) <= Len(s) /\ SubSeq(s, 1, Len(p)) = p

\* the function names on the way from the root down to node i
RECURSIVE PathOf(_, _)
PathOf(nodes, i) ==
    IF nodes[i].parent = 0 THEN <<>>
    ELSE Append(PathOf(nodes, nodes[i].parent), nodes[i].name)

ChildValues(nodes, i) ==
    SumSeq([k \in 1..Len(nodes[i].children) |-> nodes[nodes[i].children[k]].value])

\* the handler that ran last stored a tree it built from _traces and
\* _allocations (line 617) before it failed at line 620
TreeBuilt ==
    /\ last_op \in {"update_data", "toggle"}
    /\ exc = "AttributeError"

\* the handler that ran last was given data that makes it call _build_node_tree
BuildCalled ==
    /\ last_op \in {"update_data", "toggle"}
    /\ _traces # EmptyDict /\ _allocations # EmptyDict
    /\ last_op = "toggle" => _root # None

IsEmptyRoot(r) ==
    r # None /\ Len(r) = 1 /\ r[1].value = 0 /\ r[1].children = <<>>

(***************************************************************************)
(* C1: for every corpus passed to update_data, in either stack-order mode, *)
(* the root built by _build_node_tree has value equal to the sum of the    *)
(* per-hash sizes over the hash ids that have a matching trace, and        *)
(* hash_ids equal to exactly that set.  Stated for the corpora on which    *)
(* _build_node_tree is called (at least one trace, one allocation entry).  *)
(***************************************************************************)
C1_RootAggregatesMatched ==
    BuildCalled =>
        /\ exc # "KeyError"
        /\ _root # None
        /\ _root[1].hash_ids = MatchedIds(_traces, _allocations)
        /\ _root[1].value = SizeOver(_allocations, MatchedIds(_traces, _allocations))

(***************************************************************************)
(* C2: a built tree has exactly one node per distinct non-empty prefix of  *)
(* the walked function names of the processed stacks; a node's value is    *)
(* the summed size of the stacks whose walked frames start with its path,  *)
(* and its hash_ids is the set of those stacks.                            *)
(***************************************************************************)
C2_OneNodePerPrefix ==
    TreeBuilt =>
        LET nodes == _root
            ids == KeySet(_allocations)
            inner == 2..Len(nodes)
            under(i) == {h \in ids : StartsWith(Walked(h), PathOf(nodes, i))}
        IN /\ \A i, j \in inner : PathOf(nodes, i) = PathOf(nodes, j) => i = j
           /\ {PathOf(nodes, i) : i \in inner} =
                  UNION {{SubSeq(Walked(h), 1, k) : k \in 1..Len(Walked(h))} : h \in ids}
           /\ \A i \in inner :
                  /\ nodes[i].hash_ids = under(i)
                  /\ nodes[i].value = SizeOver(_allocations, under(i))
           /\ \A i \in 1..Len(nodes) :
                  {nodes[i].children[k] : k \in 1..Len(nodes[i].children)} =
                      {j \in inner : nodes[j].parent = i}

\* two stacks of positive size share a first frame and diverge below it
C2_Witness ==
    /\ TreeBuilt
    /\ \E i \in 2..Len(_root) :
          /\ Cardinality(_root[i].hash_ids) = 2
          /\ Len(_root[i].children) = 2
          /\ \A k \in 1..2 : _root[_root[i].children[k]].value > 0

(***************************************************************************)
(* C3 as claimed: in every built tree every non-leaf node, the root        *)
(* included, has value equal to the sum of its children's values.          *)
(***************************************************************************)
C3_ValueIsSumOfChildren ==
    TreeBuilt =>
        \A i \in 1..Len(_root) :
            _root[i].children # <<>> => _root[i].value = ChildValues(_root, i)

(***************************************************************************)
(* C3 amended: every node's value equals the sum of its children's values  *)
(* plus the sizes of the stacks whose walked frames end at that node; so   *)
(* the claimed equality holds at the root and at every node where no stack *)
(* ends, and elsewhere the value is at least the children's sum.           *)
(***************************************************************************)
C3_ValueIsChildrenPlusEnding ==
    TreeBuilt =>
        LET ending(i) == {h \in KeySet(_allocations) : Walked(h) = PathOf(_root, i)}
        IN /\ \A i \in 1..Len(_root) :
                 /\ _root[i].value =
                        ChildValues(_root, i) + SizeOver(_allocations, ending(i))
                 /\ _root[i].value >= ChildValues(_root, i)
                 /\ ending(i) = {} => _root[i].value = ChildValues(_root, i)
           /\ ending(1) = {}

\* a stack of positive size ends at a node that has a child
C3_Witness ==
    /\ TreeBuilt
    /\ \E i \in 2..Len(_root) :
          /\ _root[i].children # <<>>
          /\ _root[i].value > ChildValues(_root, i)

(***************************************************************************)
(* C4: after a layout pass over a built tree, the widths of the children   *)
(* of every non-leaf node sum to at most the node's width, and to exactly  *)
(* its width when the children's values sum to the node's value.           *)
(***************************************************************************)
LayoutDone == last_op = "layout" /\ exc = "none"

ChildWidths(nodes, i) ==
    RSum([k \in 1..Len(nodes[i].children) |-> nodes[nodes[i].children[k]].width])

C5_ZeroParentGuarded ==
    last_op = "layout" => exc # "ZeroDivisionError"

(***************************************************************************)
(* C6: after update_data with zero traces or zero allocation entries,      *)
(* whatever was displayed before, the widget holds a root of value 0       *)
(* without children (or no root), shows no rectangle, and nothing raised.  *)
(***************************************************************************)
C6_EmptyInputEmptyRoot ==
    (last_op = "update_data" /\ (_traces = EmptyDict \/ _allocations = EmptyDict)) =>
        /\ _root = None \/ IsEmptyRoot(_root)
        /\ _rect_items = EmptyDict
        /\ exc = "none"

(***************************************************************************)
(* Vocabulary of C7: the blocks of a stack file.                           *)
(***************************************************************************)
\* the positions of the marker lines
Markers(lines) == {i \in 1..Len(lines) : StartsWithHash(Strip(lines[i]))}

MarkerId(lines, i) == Strip(SplitSecond(Strip(lines[i])))

\* the last line of the block the marker at i introduces
BlockEnd(lines, i) ==
    LET later == {j \in Markers(lines) : j > i}
    IN IF later = {} THEN Len(lines) ELSE Min(later) - 1

\* the frames of the non-empty lines from..to, in file order
RECURSIVE FramesOf(_, _, _)
FramesOf(lines, from, to) ==
    IF from > to THEN <<>>
    ELSE (IF Strip(lines[from]) = <<>> THEN <<>> ELSE <<StackFrame_parse(lines[from])>>)
         \o FramesOf(lines, from + 1, to)

BlockFrames(lines, i) == FramesOf(lines, i + 1, BlockEnd(lines, i))

(***************************************************************************)
(* C7: after StackParser.parse_file on a file, an id h is in the mapping   *)
(* iff some block introduced by a hash:h marker has at least one frame     *)
(* line, and the frames stored for h are exactly the non-empty lines of    *)
(* the last such block, in file order: a block without frame lines stores  *)
(* nothing and lines outside h's block never appear in h's frames.         *)
(***************************************************************************)
C7_BlocksByMarker ==
    (last_op = "parse_stack" /\ exc = "none") =>
        LET lines == file.lines
            t == stack_parser.traces
            stored == {i \in Markers(lines) : BlockFrames(lines, i) # <<>>}
        IN /\ KeySet(t) = {MarkerId(lines, i) : i \in stored}
           /\ \A h \in KeySet(t) :
                 \E i \in stored :
                    /\ MarkerId(lines, i) = h
                    /\ \A j \in stored : MarkerId(lines, j) = h => j <= i
                    /\ DictGet(t, h) = StackTrace(h, BlockFrames(lines, i))

(***************************************************************************)
(* C8: for every sequence of lines of a readable file, parse_file of both  *)
(* parsers completes without raising, and every record block of an         *)
(* allocation file (a maximal run of non-blank lines) yields a record,     *)
(* also the blocks after a malformed line.                                 *)
(***************************************************************************)
RecordBlocks(lines) ==
    Cardinality({i \in 1..Len(lines) :
                    /\ Strip(lines[i]) # <<>>
                    /\ i = 1 \/ Strip(lines[i - 1]) = <<>>})

C8_ParsersNeverRaise ==
    (last_op \in {"parse_stack", "parse_alloc"} /\ file.readable) =>
        /\ exc = "none"
        /\ last_op = "parse_alloc" =>
               Len(alloc_parser.records) = parses * RecordBlocks(file.lines)

(***************************************************************************)
(* C9: building the flame tree from a corpus in which an allocation        *)
(* entry's hash id has no matching trace does not raise; the unmatched     *)
(* entry contributes zero and the other stacks are merged as usual.        *)
(***************************************************************************)
C9_OrphanTolerated ==
    (BuildCalled /\ ~(KeySet(_allocations) \subseteq KeySet(_traces))) =>
        /\ exc # "KeyError"
        /\ _root # None
        /\ _root[1].value = SizeOver(_allocations, MatchedIds(_traces, _allocations))

(***************************************************************************)
(* C10: a load_all_file in which parsing a file fails ends with the        *)
(* failure status and leaves the data of the views and of the parsers as   *)
(* it was before the load.                                                 *)
(***************************************************************************)
C10_FailedLoadKeepsData ==
    [][(last_op' = "load_all_file" /\ status' = <<"load failed">>) =>
          /\ stack_parser' = stack_parser
          /\ alloc_parser' = alloc_parser
          /\ _traces' = _traces
          /\ _allocations' = _allocations
          /\ _root' = _root
          /\ stack_tree' = stack_tree
          /\ timeline_frame_data' = timeline_frame_data]_vars

(***************************************************************************)
(* Vocabulary of C11: a tree up to node identity, and the tree the claims  *)
(* expect of a corpus in a stack-order mode.                               *)
(***************************************************************************)
\* the nodes as (path of function names, value, stack-id set)
Canon(nodes) ==
    {<<PathOf(nodes, i), nodes[i].value, nodes[i].hash_ids>> : i \in 1..Len(nodes)}

WalkedIn(traces, reverse, h) ==
    LET fs == DictGet(traces, h).frames
        names == [i \in 1..Len(fs) |-> fs[i].function]
    IN IF reverse THEN Reverse(names) ELSE names

\* one node per prefix of the walks of the stacks, the empty prefix included
ExpectedCanon(traces, allocations, reverse) ==
    LET ids == KeySet(allocations)
        walk(h) == WalkedIn(traces, reverse, h)
        prefixes == UNION {{SubSeq(walk(h), 1, k) : k \in 0..Len(walk(h))} : h \in ids}
        under(p) == {h \in ids : StartsWith(walk(h), p)}
    IN {<<p, SizeOver(allocations, under(p)), under(p)>> : p \in prefixes}

\* a tree built from a non-empty corpus is held
Shown == _root # None /\ _traces # EmptyDict /\ _allocations # EmptyDict

(***************************************************************************)
(* C11: in every state in which the tree of a non-empty corpus is held, a  *)
(* toggle of the stack order flips reverse_stack and rebuilds the tree     *)
(* from the same corpus walking every stack's frames in the opposite       *)
(* direction, and a second toggle brings reverse_stack back and gives a    *)
(* tree equal to the one before the first up to node identity (same paths  *)
(* of function names, same values, same stack-id sets).                    *)
(***************************************************************************)
C11_ToggleTwiceIsomorphic ==
    Shown =>
        LET once == ToggleResult(_traces, _allocations, _root, _rect_items, reverse_stack)
            twice == ToggleResult(_traces, _allocations, once.root, once.rect_items,
                                  once.reverse_stack)
        IN /\ once.reverse_stack = ~reverse_stack
           /\ twice.reverse_stack = reverse_stack
           /\ Cardinality(Canon(once.root)) = Len(once.root)
           /\ Canon(once.root) = ExpectedCanon(_traces, _allocations, ~reverse_stack)
           /\ Cardinality(Canon(twice.root)) = Len(twice.root)
           /\ Canon(twice.root) = Canon(_root)

\* two toggles have run on a corpus whose two trees differ
C11_Witness ==
    /\ last_op = "toggle"
    /\ Shown
    /\ reverse_stack = FALSE
    /\ Canon(_root) # ExpectedCanon(_traces, _allocations, TRUE)


(***************************************************************************)
(* The indices of the allocation parser                                    *)
(***************************************************************************)
\* the records of the parser that satisfy Test, in insertion order
RecordsWithHash(parser, h) ==
    LET Test(r) == r.hash_id = h IN SelectSeq(parser.records, Test)

RecordsWithFrame(parser, f) ==
    LET Test(r) == r.frame = Some(f) IN SelectSeq(parser.records, Test)

\* the hash ids and the frames asked for: those of the records and of the
\* buckets, and some that no record has
HashIdsAsked(parser) ==
    {parser.records[i].hash_id : i \in 1..Len(parser.records)}
        \cup {parser._hash_data[i].key : i \in 1..Len(parser._hash_data)}
        \cup {<<>>, <<"a">>, <<"z">>}

FramesAsked(parser) ==
    {parser.records[i].frame[1] :
        i \in {j \in 1..Len(parser.records) : parser.records[j].frame # None}}
        \cup {parser._frame_data[i].key : i \in 1..Len(parser._frame_data)}
        \cup {0, 2, 7}

RECURSIVE SumOver(_, _, _)
\* the sum of get_hash_total_size over a set of hash ids
SumOver(parser, ids, acc) ==
    IF ids = {} THEN acc
    ELSE LET h == CHOOSE x \in ids : TRUE
         IN SumOver(parser, ids \ {h}, acc + get_hash_total_size(parser, h))

(* C14: whatever has been parsed, get_hash_allocations(h) is the            *)
(* subsequence of the records with hash id h and get_frame_allocations(f)   *)
(* the subsequence of the records with frame f, both in insertion order; a  *)
(* record without a frame is in no frame bucket; and the sizes of the hash  *)
(* buckets add up to the size of all records.                               *)
C14_IndicesAreSubsequences ==
    /\ \A h \in HashIdsAsked(alloc_parser) :
          get_hash_allocations(alloc_parser, h) = RecordsWithHash(alloc_parser, h)
    /\ \A f \in FramesAsked(alloc_parser) :
          get_frame_allocations(alloc_parser, f) = RecordsWithFrame(alloc_parser, f)
    /\ \A i \in 1..Len(alloc_parser._frame_data) :
          \A j \in 1..Len(alloc_parser._frame_data[i].val) :
             alloc_parser._frame_data[i].val[j].frame # None
    /\ SumOver(alloc_parser, HashIdsAsked(alloc_parser), 0)
          = SumSeq([i \in 1..Len(alloc_parser.records) |-> alloc_parser.records[i].size])

\* two different records of one hash id, one of them without a frame
C14_Witness ==
    /\ last_op = "parse_alloc"
    /\ \E i, j \in 1..Len(alloc_parser.records) :
          /\ i < j
          /\ alloc_parser.records[i].hash_id = alloc_parser.records[j].hash_id
          /\ alloc_parser.records[i] # alloc_parser.records[j]
          /\ (alloc_parser.records[i].frame = None) # (alloc_parser.records[j].frame = None)
          /\ alloc_parser.records[i].size + alloc_parser.records[j].size > 0

\* the positions of the records that carry a frame
Framed(parser) == {i \in 1..Len(parser.records) : parser.records[i].frame # None}

(* C15: get_frame_range is (0, 0) when no record carries a frame, and       *)
(* otherwise (lo, hi) where lo and hi are frames of records, lo is at most  *)
(* and hi at least every frame of a record; the records without a frame    *)
(* have no part in it.                                                     *)
C15_FrameRange ==
    LET range == get_frame_range(alloc_parser)
        framed == Framed(alloc_parser)
    IN IF framed = {} THEN range = <<0, 0>>
       ELSE /\ \E i \in framed : alloc_parser.records[i].frame = Some(range[1])
            /\ \E i \in framed : alloc_parser.records[i].frame = Some(range[2])
            /\ \A i \in framed : /\ range[1] <= alloc_parser.records[i].frame[1]
                                 /\ alloc_parser.records[i].frame[1] <= range[2]

\* frames 5 and 2 were recorded, the larger one first
C15_Witness ==
    /\ last_op = "parse_alloc"
    /\ get_frame_range(alloc_parser) = <<2, 5>>
    /\ alloc_parser.records[1].frame = Some(5)

(***************************************************************************)
(* Search                                                                  *)
(***************************************************************************)
\* the positions in _rect_items of the rectangles whose name contains text,
\* whatever the case of the letters
Matching(text) ==
    {k \in 1..Len(_rect_items) : Contains(Lower(_rect_items[k].data0), Lower(text))}

Highlighted == {k \in 1..Len(_rect_items) : _rect_items[k].brush = MatchBrush}

\* the handler that ran last executed a search for the text in the box
SearchExecuted ==
    /\ last_op \in {"search_now", "timer"}
    /\ age = 0
    /\ search_text # <<>>

(* C12: when a search for a non-empty text t has just executed, the         *)
(* rectangles with the highlight fill are exactly those whose name         *)
(* contains t whatever the case, search_results holds exactly the          *)
(* rectangles of that set, and every other rectangle has the fill          *)
(* _get_color gives for its name.                                          *)
C12_SearchHighlightsMatches ==
    SearchExecuted =>
        /\ Highlighted = Matching(search_text)
        /\ {search_results[i] : i \in 1..Len(search_results)}
              = {RectRef(_rect_items[k].node) : k \in Matching(search_text)}
        /\ \A k \in (1..Len(_rect_items)) \ Matching(search_text) :
              _rect_items[k].brush = SolidBrush(_get_color(_rect_items[k].data0))

\* the fill _create_rect_item gave rectangle k when it was drawn
DrawnBrush(k) ==
    _create_rect_item(_root, _rect_items[k].node.gen, _rect_items[k].node.idx,
                      selected_node).brush

(* C13: when the search has just been cleared (by the clear button or by    *)
(* emptying the box), every rectangle has the fill it was drawn with,      *)
(* search_results is empty, and clearing once more changes nothing.        *)
C13_ClearRestoresFill ==
    last_op \in {"clear", "search_cleared"} =>
        /\ \A k \in 1..Len(_rect_items) : _rect_items[k].brush = DrawnBrush(k)
        /\ search_results = <<>>
        /\ _clear_search(_rect_items) = _rect_items

(***************************************************************************)
(* The rate limit of the search                                            *)
(***************************************************************************)
\* this step is a keystroke that leaves a non-empty text in the box
TypesText == search_text' # search_text /\ search_text' # <<>>

Fires == timer = 0 /\ timer' = -1

(* C19, the steps: a keystroke with a non-empty text that arrives while     *)
(* the deferred callback is pending starts the timer over; when the timer   *)
(* fires with a text in the box, the search runs once with that text (the   *)
(* highlighted rectangles are its matches and each match is added to       *)
(* search_results once), and when it fires with an empty box nothing       *)
(* changes.  There is one timer, so at most one callback is pending.       *)
C19_PendingRescheduled ==
    [][/\ (TypesText /\ timer >= 0) => timer' = TimerTicks
       /\ (Fires /\ search_text # <<>>) =>
             /\ search_text' = search_text
             /\ Highlighted' = Matching(search_text)'
             /\ Len(search_results') = Len(search_results)
                                          + Cardinality(Matching(search_text))
       /\ (Fires /\ search_text = <<>>) =>
             /\ _rect_items' = _rect_items
             /\ search_results' = search_results]_vars

(* C19, the end: with the timer served and time passing, once a non-empty   *)
(* text t has been typed the highlighted rectangles eventually are the     *)
(* matches of t, unless the text is changed again.                         *)
C19_EventuallyHighlighted ==
    \A t \in SearchTexts \ {<<>>} :
        (search_text = t /\ last_op \in {"search_now", "search_deferred"})
            ~> (search_text # t \/ Highlighted = Matching(t))

(***************************************************************************)
(* Selection and the result buttons                                        *)
(***************************************************************************)
\* the positions in _rect_items of the rectangle of node n
RectsOfNode(n) == {k \in 1..Len(_rect_items) : _rect_items[k].node = n}

HighlightedPens == {k \in 1..Len(_rect_items) : _rect_items[k].pen = HighlightPen}

(* C16: when a rectangle has just been clicked, selected_node is the node   *)
(* of a rectangle of the scene, whatever was selected before, the handler  *)
(* returned, and stack_selected was sent once for each hash id of that     *)
(* node of the tree and for no other id.                                   *)
C16_ClickSelectsAndEmits ==
    last_op = "click" =>
        /\ exc = "none"
        /\ selected_node.kind = "node"
        /\ selected_node.gen = drawn
        /\ Cardinality(RectsOfNode(selected_node)) = 1
        /\ emitted = {<<h, 1>> : h \in _root[selected_node.idx].hash_ids}

\* the rectangle of a node of two stacks was clicked while results of a
\* search were held
C16_Witness ==
    /\ last_op = "click"
    /\ Cardinality(emitted) = Cardinality(KeySet(_allocations))
    /\ Cardinality(emitted) > 1
    /\ search_results # <<>>
    /\ \E k \in HighlightedPens : _rect_items[k].node = selected_node

\* the positions in search_results of the rectangle of a selected node
ResultsOf(selected) ==
    {i \in 1..Len(search_results) :
        selected.kind = "node" /\ search_results[i] = RectRef(selected)}

(* C17: with N >= 1 search results, a press of next or previous returns     *)
(* without error and selects the node of a result: the one after (before)  *)
(* the result that was selected, going round at the ends.                  *)
C17_NavigationWraps ==
    [][(last_op' \in {"next", "prev"} /\ search_results # <<>>) =>
          /\ exc' = "none"
          /\ selected_node'.kind = "node"
          /\ \E i \in 1..Len(search_results) :
                /\ search_results[i] = RectRef(selected_node')
                /\ \A j \in ResultsOf(selected_node) :
                      i = IF last_op' = "next"
                          THEN (j % Len(search_results)) + 1
                          ELSE ((j - 2) % Len(search_results)) + 1]_vars

(* C20, the step: a click changes nothing of the tree, of the scene         *)
(* rectangle and of the rectangles but the pens of the rectangle of the    *)
(* node that was selected and of the rectangle of the node that is.        *)
C20_SelectionChangesOnlyPens ==
    [][last_op' = "click" =>
          /\ _root' = _root
          /\ scene_rect' = scene_rect
          /\ Len(_rect_items') = Len(_rect_items)
          /\ \A k \in 1..Len(_rect_items) :
                /\ _rect_items'[k] = [_rect_items[k] EXCEPT !.pen = _rect_items'[k].pen]
                /\ _rect_items'[k].pen # _rect_items[k].pen =>
                      _rect_items[k].node \in {selected_node, selected_node'}]_vars

(* C20, the state: when a rectangle has just been clicked, exactly one      *)
(* rectangle carries the highlight pen, the one of the selected node.      *)
C20_OneHighlightedPen ==
    last_op = "click" =>
        /\ HighlightedPens = RectsOfNode(selected_node)
        /\ Cardinality(HighlightedPens) = 1

(***************************************************************************)
(* The rows of the layout                                                  *)
(***************************************************************************)
\* the distance of node i from the root
RECURSIVE StructuralDepth(_, _)
StructuralDepth(nodes, i) ==
    IF nodes[i].parent = 0 THEN 0 ELSE 1 + StructuralDepth(nodes, nodes[i].parent)

\* the maximum of it over the leaves
MaxStructuralDepth(nodes) ==
    Max({StructuralDepth(nodes, i) : i \in {j \in 1..Len(nodes) : nodes[j].children = <<>>}})

\* C21: after every completed layout pass, the first one over a built tree
\* included, the depth slot of every node is its distance from the root when
\* reverse_stack is set and the greatest distance of a leaf from the root
\* minus its own distance when it is not, and no depth slot is negative.
C21_DepthSlots ==
    LayoutDone =>
        \A i \in 1..Len(_root) :
           /\ _root[i].depth = IF reverse_stack THEN StructuralDepth(_root, i)
                               ELSE MaxStructuralDepth(_root) - StructuralDepth(_root, i)
           /\ _root[i].depth >= 0

\* the part of C21 that holds: in reverse mode the slot is the distance from
\* the root, on every pass
C21_ReverseSlots ==
    (LayoutDone /\ reverse_stack) =>
        \A i \in 1..Len(_root) : _root[i].depth = StructuralDepth(_root, i)

(***************************************************************************)
(* The columns of the layout                                               *)
(***************************************************************************)
\* the orders in which the children of a node can be listed
Orderings(cs) ==
    {p \in [1..Len(cs) -> {cs[k] : k \in 1..Len(cs)}] :
        \A a, b \in 1..Len(cs) : p[a] = p[b] => a = b}

\* the right edge of a node
RightEdge(n) == RAdd(n.x, n.width)

RowStep == rect_height + v_spacing

\* the nodes that get a rectangle
Inner(nodes) == 2..Len(nodes)

\* with reverse_stack false the children of the root are at y = 0 and a node
\* one level deeper is one step higher
ForwardRows ==
    \A i \in Inner(_root) : _root[i].y = -((StructuralDepth(_root, i) - 1) * RowStep)

\* as ForwardRows, with the bottom edge of the lowest row at 0
ForwardRowsBelowZero ==
    \A i \in Inner(_root) :
       _root[i].y = -((StructuralDepth(_root, i) - 1) * RowStep) - rect_height

\* with reverse_stack true the rows go down with the depth, one row height
\* lower than depth * step, and the scene starts at (0, 0)
ReverseRows ==
    /\ \A i \in Inner(_root) : _root[i].y = StructuralDepth(_root, i) * RowStep + rect_height
    /\ scene_rect[1] = 0 /\ scene_rect[2] = 0

\* every rectangle lies within the rows the scene rectangle spans
SceneSpansRows ==
    \A i \in Inner(_root) :
       /\ scene_rect[2] <= _root[i].y
       /\ _root[i].y + rect_height <= scene_rect[2] + scene_rect[4]

\* every rectangle lies within the columns the scene rectangle spans
SceneSpansColumns ==
    \A i \in Inner(_root) :
       /\ RLe(RInt(scene_rect[1]), _root[i].x)
       /\ RLe(RightEdge(_root[i]), RInt(scene_rect[1] + scene_rect[3]))

\* C23: after a completed layout pass with reverse_stack false the children
\* of the root are at y = 0 and every deeper row is one step (row height plus
\* spacing) higher, at a negative y; with reverse_stack true the rows go down
\* with the depth from one row height below depth * step and the scene starts
\* at (0, 0); in both modes every rectangle lies inside the scene rectangle.
C23_RowsAndScene ==
    LayoutDone =>
        /\ IF reverse_stack THEN ReverseRows ELSE ForwardRows
        /\ SceneSpansRows
        /\ SceneSpansColumns

\* the parts of C23, one by one
C23_Forward == (LayoutDone /\ ~reverse_stack) => ForwardRows
C23_ForwardBelowZero == (LayoutDone /\ ~reverse_stack) => ForwardRowsBelowZero
C23_Reverse == (LayoutDone /\ reverse_stack) => ReverseRows
C23_SceneRowsForward == (LayoutDone /\ ~reverse_stack) => SceneSpansRows
C23_SceneRowsReverse == (LayoutDone /\ reverse_stack) => SceneSpansRows
C23_SceneColumns == LayoutDone => SceneSpansColumns

(***************************************************************************)
(* The layout pass as a function of the tree, the width and the mode       *)
(***************************************************************************)
\* the tree as _build_node_tree leaves it, laid out once for a viewport width
FreshLayout(w) ==
    CalculateLayout(BuildNodeTree(_traces, _allocations, reverse_stack).nodes,
                    w, reverse_stack, <<0, 0, 0, 0>>)

\* a tree without the depth slots and without the y of the root, which has no
\* rectangle
WithoutDepth(nodes) ==
    [i \in 1..Len(nodes) |->
        IF i = 1 THEN [nodes[i] EXCEPT !.depth = 0, !.y = 0]
        ELSE [nodes[i] EXCEPT !.depth = 0]]

\* C24: after a completed layout pass, however many passes went before it,
\* the x, y, width and depth slot of every node and the scene rectangle are
\* those of the freshly built tree laid out once for the same viewport width
\* and mode.
C24_PassIndependent ==
    LayoutDone =>
        \E w \in ViewportWidths :
           /\ _root = FreshLayout(w).nodes
           /\ scene_rect = FreshLayout(w).scene_rect

\* the part of C24 that holds: the x and width of every node, the y of every
\* node below the root and the scene rectangle
C24_GeometryIndependent ==
    LayoutDone =>
        \E w \in ViewportWidths :
           /\ WithoutDepth(_root) = WithoutDepth(FreshLayout(w).nodes)
           /\ scene_rect = FreshLayout(w).scene_rect

(***************************************************************************)
(* The rectangles and the tree they were drawn from                        *)
(***************************************************************************)
\* C25: in every state the rectangles are the complete set of the current
\* root: none when there is no root, else exactly one for every node of that
\* root below the root itself and none of any other tree, also after a
\* reload with an empty corpus and after a reload whose layout fails.
C25_RectanglesOfCurrentRoot ==
    IF _root = None THEN _rect_items = EmptyDict
    ELSE /\ \A i \in Inner(_root) :
               Cardinality(RectsOfNode(NodeRef(_root, drawn, i))) = 1
         /\ \A k \in 1..Len(_rect_items) :
               /\ _rect_items[k].node.gen = drawn
               /\ _rect_items[k].node.idx \in Inner(_root)

\* the part of C25 that holds: the rectangles are none or the complete set
\* of the current root
C25_NoneOrComplete ==
    _rect_items # EmptyDict =>
        /\ _root # None
        /\ \A i \in Inner(_root) :
              Cardinality(RectsOfNode(NodeRef(_root, drawn, i))) = 1
        /\ \A k \in 1..Len(_rect_items) :
              /\ _rect_items[k].node.gen = drawn
              /\ _rect_items[k].node.idx \in Inner(_root)

\* C29: in every state the x, y and width of every rectangle are the x, y
\* and width (at least min_width) the layout of its node holds, also after a
\* resize that changed the width of the viewport.
C29_RectanglesFollowLayout ==
    \A k \in 1..Len(_rect_items) :
       LET n == _root[_rect_items[k].node.idx]
       IN _rect_items[k].rect = <<n.x, n.y, RMax(RInt(min_width), n.width), rect_height>>

(***************************************************************************)
(* The two merge trees of the window                                       *)
(***************************************************************************)
\* the node whose children hold node i of a CallTreeNode arena
CallParent(nodes, i) ==
    CHOOSE j \in 1..Len(nodes) :
       \E k \in 1..Len(nodes[j].children) : nodes[j].children[k].val = i

\* the function names on the way from the root down to node i of that arena
RECURSIVE CallPathOf(_, _)
CallPathOf(nodes, i) ==
    IF i = 1 THEN <<>>
    ELSE Append(CallPathOf(nodes, CallParent(nodes, i)), nodes[i].frame[1].function)

\* update_views has just handed a corpus with traces to both views
ViewsUpdated ==
    /\ last_op = "load_all_file"
    /\ status # <<"load failed">>
    /\ _traces # EmptyDict

\* C26: when update_views has handed the same traces and allocation lists to
\* both views, the CallTreeNode tree and the FlameGraphNode tree (forward
\* order) have the same node paths with one node per path, nodes of the same
\* path have equal totals and equal sets of stack ids, and allocation_count
\* is the number of stacks that went through the node.
C26_SameMergeTree ==
    (ViewsUpdated /\ ~reverse_stack) =>
        /\ _root # None
        /\ {PathOf(_root, i) : i \in 1..Len(_root)}
              = {CallPathOf(stack_tree, j) : j \in 1..Len(stack_tree)}
        /\ \A j, k \in 1..Len(stack_tree) :
              CallPathOf(stack_tree, j) = CallPathOf(stack_tree, k) => j = k
        /\ \A i \in 1..Len(_root) : \A j \in 1..Len(stack_tree) :
              PathOf(_root, i) = CallPathOf(stack_tree, j) =>
                 /\ _root[i].value = stack_tree[j].total_size
                 /\ _root[i].hash_ids = stack_tree[j].stack_hashes
        /\ \A j \in 1..Len(stack_tree) :
              stack_tree[j].allocation_count = Cardinality(stack_tree[j].stack_hashes)

\* the part of C26 that holds: every node of the CallTreeNode tree counts the
\* stacks that went through it, and the totals of the two roots are equal
C26_CountsAndTotals ==
    (ViewsUpdated /\ ~reverse_stack) =>
        /\ _root # None
        /\ _root[1].value = stack_tree[1].total_size
        /\ \A j \in 1..Len(stack_tree) :
              stack_tree[j].allocation_count = Cardinality(stack_tree[j].stack_hashes)

\* the corpus has a stack of aggregated size 0
HasEmptyStack ==
    \E i \in 1..Len(_allocations) :
       SumSeq([j \in 1..Len(_allocations[i].val) |-> _allocations[i].val[j].size]) = 0

\* two traces of the corpus have frames of one function and different modules
HasModuleClash ==
    \E a, b \in 1..Len(_traces) :
       \E x \in 1..Len(_traces[a].val.frames) : \E y \in 1..Len(_traces[b].val.frames) :
          /\ _traces[a].val.frames[x].function = _traces[b].val.frames[y].function
          /\ _traces[a].val.frames[x].module # _traces[b].val.frames[y].module

\* C26 without its last clause: the trees are the same when no stack of the
\* corpus has size 0 and no function occurs with two modules
C26_SameOnPlainCorpora ==
    (ViewsUpdated /\ ~reverse_stack /\ ~HasEmptyStack /\ ~HasModuleClash) =>
        /\ {PathOf(_root, i) : i \in 1..Len(_root)}
              = {CallPathOf(stack_tree, j) : j \in 1..Len(stack_tree)}
        /\ \A i \in 1..Len(_root) : \A j \in 1..Len(stack_tree) :
              PathOf(_root, i) = CallPathOf(stack_tree, j) =>
                 /\ _root[i].value = stack_tree[j].total_size
                 /\ _root[i].hash_ids = stack_tree[j].stack_hashes

(***************************************************************************)
(* The result list under keystrokes, timer firings and clears              *)
(***************************************************************************)
\* C27: whatever the order of keystrokes, timer firings and clears,
\* search_results holds no rectangle twice, and every rectangle of the scene
\* it holds has a name that contains the searched text.
C27_ResultsOnceAndMatching ==
    /\ \A i, j \in 1..Len(search_results) :
          search_results[i] = search_results[j] => i = j
    /\ \A i \in 1..Len(search_results) :
          IsLive(_rect_items, search_results[i]) =>
             Contains(Lower(RectOf(_rect_items, search_results[i]).data0),
                      Lower(search_text))

\* the part of C27 that holds: the rectangles of the scene that
\* search_results holds have a name that contains the searched text
C27_ResultsMatching ==
    \A i \in 1..Len(search_results) :
       IsLive(_rect_items, search_results[i]) =>
          Contains(Lower(RectOf(_rect_items, search_results[i]).data0),
                   Lower(search_text))

(***************************************************************************)
(* References to discarded objects                                         *)
(***************************************************************************)
\* n is a node of the tree _root holds
NodeOfCurrentTree(n) ==
    /\ n.kind = "node"
    /\ _root # None
    /\ n.gen = drawn
    /\ n.idx \in 1..Len(_root)

\* C28: in every state selected_node is None or a node of the current tree,
\* and every entry of search_results is a rectangle of the current
\* rectangle set.
C28_NoStaleReferences ==
    /\ selected_node = NoNode \/ NodeOfCurrentTree(selected_node)
    /\ \A i \in 1..Len(search_results) : IsLive(_rect_items, search_results[i])

\* the two halves of C28
C28_SelectedIsCurrent == selected_node = NoNode \/ NodeOfCurrentTree(selected_node)
C28_ResultsAreLive ==
    \A i \in 1..Len(search_results) : IsLive(_rect_items, search_results[i])

(***************************************************************************)
(* The corpus of a load                                                    *)
(***************************************************************************)
\* the two parsers as they are after parsing a file from scratch
FreshStackParser(f) == StackParser_parse_file(StackParser, f).parser
FreshAllocParser(f) == AllocationParser_parse_file(AllocationParser, f).parser

\* load_all_file has just run update_views with a file chosen in both dialogs
LoadedBoth ==
    /\ last_op = "load_all_file"
    /\ status # <<"load failed">>
    /\ chosen[1] # None /\ chosen[2] # None

\* the frames either parser state knows
FramesKnown(ap, bp) == KeySet(ap._frame_data) \cup KeySet(bp._frame_data)

\* C30: when load_all_file has just succeeded with a stack file and an
\* allocation file chosen, the traces and the per-stack allocation lists
\* handed to the views, and the frame range and frame totals the timeline is
\* computed from, are those of the two chosen files alone, whatever was
\* loaded before.
C30_CorpusOfChosenFiles ==
    LoadedBoth =>
        LET sp == FreshStackParser(chosen[1][1])
            ap == FreshAllocParser(chosen[2][1])
        IN /\ _traces = sp.traces
           /\ _allocations = [i \in 1..Len(sp.traces) |->
                                 [key |-> sp.traces[i].key,
                                  val |-> get_hash_allocations(ap, sp.traces[i].key)]]
           /\ get_frame_range(alloc_parser) = get_frame_range(ap)
           /\ \A f \in FramesKnown(alloc_parser, ap) :
                 get_frame_total_size(alloc_parser, f) = get_frame_total_size(ap, f)

\* the part of C30 that holds: the first load of a window hands over the
\* corpus of its files
C30_FirstLoad ==
    (LoadedBoth /\ loads = 1) =>
        LET sp == FreshStackParser(chosen[1][1])
            ap == FreshAllocParser(chosen[2][1])
        IN /\ _traces = sp.traces
           /\ _allocations = [i \in 1..Len(sp.traces) |->
                                 [key |-> sp.traces[i].key,
                                  val |-> get_hash_allocations(ap, sp.traces[i].key)]]
           /\ get_frame_range(alloc_parser) = get_frame_range(ap)
           /\ \A f \in FramesKnown(alloc_parser, ap) :
                 get_frame_total_size(alloc_parser, f) = get_frame_total_size(ap, f)
====
